---- MODULE Spec2Model ----
(***************************************************************************)
(* The evaluation core of the JKL scripting language: the static resolver  *)
(* (src/src/resolver.rs) followed by the tree-walking interpreter          *)
(* (src/src/interpreter.rs).  A behaviour resolves one program, statement  *)
(* by statement, and, when resolution returns a distance map, executes it. *)
(* Both passes are recursive in the source; here the Rust call stack is an *)
(* explicit stack of pending tasks (work for the resolver, kont for the    *)
(* interpreter), each task being the rest of a handler that has not run    *)
(* yet.                                                                    *)
(***************************************************************************)
EXTENDS Integers, Sequences, FiniteSets, TLC

VARIABLES
    prog,              \* the syntax tree handed to both passes
    phase,             \* "resolve" | "run" | "done"
    scopes,            \* Resolver.scopes: stack of name -> ready?
    current_function,  \* Resolver.current_function
    current_loop,      \* Resolver.current_loop
    locals,            \* Resolver.locals: node id -> distance
    work,              \* pending resolver calls (the Rust call stack)
    rstatus,           \* "" while resolving | "ok" | "panic"
    rmsg,              \* the panic message
    heap,              \* the environments: index -> [vars, enclosing]
    interps,           \* stack of Interpreter values [environment, specials]
    kont,              \* pending interpreter work (the Rust call stack)
    vals,              \* values of evaluated sub-expressions
    err,               \* <<>> or the Err(String) being propagated
    output,            \* values printed so far
    spawned            \* command lines of the processes spawned so far

rvars == <<scopes, current_function, current_loop, locals, work, rstatus, rmsg>>
ivars == <<heap, interps, kont, vals, err, output, spawned>>
vars == <<prog, phase, scopes, current_function, current_loop, locals, work,
          rstatus, rmsg, heap, interps, kont, vals, err, output, spawned>>

(***************************************************************************)
(* Maps (HashMap) and options                                              *)
(***************************************************************************)
EmptyMap == [k \in {} |-> TRUE]

Put(m, k, v) == [x \in (DOMAIN m) \cup {k} |-> IF x = k THEN v ELSE m[x]]

None == <<>>

Some(x) == <<x>>

Range(s) == {s[i] : i \in 1..Len(s)}

SetMax(S) == CHOOSE x \in S : \A y \in S : y <= x

(***************************************************************************)
(* Runtime values (LiteralValue)                                           *)
(***************************************************************************)
Nil == [kind |-> "nil"]

Num(n) == [kind |-> "num", n |-> n]

Bool(b) == [kind |-> "bool", b |-> b]

Str(s) == [kind |-> "str", s |-> s]

(***************************************************************************)
(* Syntax trees (Expr and Stmt).  Every Variable, Assign and Call node     *)
(* carries the id the parser gave it.                                      *)
(***************************************************************************)
Literal(v) == [kind |-> "Literal", value |-> v]

Variable(id, name) == [kind |-> "Variable", id |-> id, name |-> name]

Assign(id, name, value) ==
    [kind |-> "Assign", id |-> id, name |-> name, value |-> value]

Binary(left, operator, right) ==
    [kind |-> "Binary", left |-> left, operator |-> operator, right |-> right]

Call(id, callee, arguments) ==
    [kind |-> "Call", id |-> id, callee |-> callee, arguments |-> arguments]

AnonFunction(arguments, body) ==
    [kind |-> "AnonFunction", arguments |-> arguments, body |-> body]

Expression(expression) == [kind |-> "Expression", expression |-> expression]

PrintStmt(expression) == [kind |-> "Print", expression |-> expression]

Var(name, initializer) ==
    [kind |-> "Var", name |-> name, initializer |-> initializer]

Block(statements) == [kind |-> "Block", statements |-> statements]

Function(name, params, body) ==
    [kind |-> "Function", name |-> name, params |-> params, body |-> body]

CmdFunction(name, cmd) == [kind |-> "CmdFunction", name |-> name, cmd |-> cmd]

IfStmt(predicate, then, elif_branches, els) ==
    [kind |-> "IfStmt", predicate |-> predicate, then |-> then,
     elif_branches |-> elif_branches, els |-> els]

WhileStmt(condition, body) ==
    [kind |-> "WhileStmt", condition |-> condition, body |-> body]

ReturnStmt(value) == [kind |-> "ReturnStmt", value |-> value]

BreakStmt == [kind |-> "BreakStmt"]

Class(name, methods, superclass) ==
    [kind |-> "Class", name |-> name, methods |-> methods,
     superclass |-> superclass]

(***************************************************************************)
(* Resolver: scope stack                                                   *)
(***************************************************************************)
BeginScope(sc) == Append(sc, EmptyMap)

\* an end_scope that pops nothing
EndScopeKeeps(sc) == sc

EndScope(sc) == SubSeq(sc, 1, Len(sc) - 1)

\* a declare that only refuses a name whose initializer is still open
DeclarePanicsUnreadyOnly(sc, name) ==
    /\ Len(sc) > 0
    /\ name \in DOMAIN sc[Len(sc)]
    /\ sc[Len(sc)][name] = FALSE

\* declare panics when the innermost scope already has the name
DeclarePanics(sc, name) == Len(sc) > 0 /\ name \in DOMAIN sc[Len(sc)]

Declare(sc, name) ==
    IF Len(sc) = 0 THEN sc ELSE [sc EXCEPT ![Len(sc)] = Put(@, name, FALSE)]

Define(sc, name) ==
    IF Len(sc) = 0 THEN sc ELSE [sc EXCEPT ![Len(sc)] = Put(@, name, TRUE)]

\* a resolve_local whose loop runs from the outermost scope inwards
ResolveLocalOutermost(sc, loc, name, id) ==
    LET hits == {i \in 1..Len(sc) : name \in DOMAIN sc[i]}
    IN  IF hits = {} THEN loc
        ELSE Put(loc, id,
                 Len(sc) - (CHOOSE i \in hits : \A j \in hits : i <= j))

\* a resolve_local that records size - i in place of size - 1 - i
ResolveLocalOffByOne(sc, loc, name, id) ==
    LET hits == {i \in 1..Len(sc) : name \in DOMAIN sc[i]}
    IN  IF hits = {} THEN loc ELSE Put(loc, id, Len(sc) - SetMax(hits) + 1)

\* resolve_local: the innermost scope holding the name decides the distance
ResolveLocal(sc, loc, name, id) ==
    LET hits == {i \in 1..Len(sc) : name \in DOMAIN sc[i]}
    IN  IF hits = {} THEN loc ELSE Put(loc, id, Len(sc) - SetMax(hits))

\* a resolve_expr_var without the check of the innermost scope
ReadsOwnInitializerUnchecked(sc, name) == FALSE

\* the check resolve_expr_var makes before resolve_local
ReadsOwnInitializer(sc, name) ==
    /\ Len(sc) > 0
    /\ name \in DOMAIN sc[Len(sc)]
    /\ sc[Len(sc)][name] = FALSE

\* the parameter loop of resolve_function_helper, run on the fresh scope
RECURSIVE DeclareParams(_, _, _)
DeclareParams(sc, params, i) ==
    IF i > Len(params) THEN [panic |-> FALSE, scopes |-> sc]
    ELSE IF DeclarePanics(sc, params[i]) THEN [panic |-> TRUE, scopes |-> sc]
    ELSE DeclareParams(Define(Declare(sc, params[i]), params[i]), params, i + 1)

(***************************************************************************)
(* Resolver: pending calls                                                 *)
(***************************************************************************)
StmtTask(s) == [op |-> "stmt", node |-> s]

ExprTask(e) == [op |-> "expr", node |-> e]

\* resolve_many: one resolve_internal per statement, in order
StmtTasks(stmts) == [i \in 1..Len(stmts) |-> StmtTask(stmts[i])]

ExprTasks(exprs) == [i \in 1..Len(exprs) |-> ExprTask(exprs[i])]

RECURSIVE ElifTasks(_, _)
ElifTasks(branches, i) ==
    IF i > Len(branches) THEN <<>>
    ELSE <<ExprTask(branches[i][1]), StmtTask(branches[i][2])>>
         \o ElifTasks(branches, i + 1)

Resolving == phase = "resolve" /\ rstatus = "" /\ Len(work) > 0

AtStmt(k) == Resolving /\ Head(work).op = "stmt" /\ Head(work).node.kind = k

AtExpr(k) == Resolving /\ Head(work).op = "expr" /\ Head(work).node.kind = k

AtTask(o) == Resolving /\ Head(work).op = o

Panic(msg) ==
    /\ rstatus' = "panic"
    /\ rmsg' = msg
    /\ UNCHANGED <<scopes, current_function, current_loop, locals, work>>

MsgReturn == "Return statement is not allowed outside of a function"

MsgBreak == "Break statement is not allowed outside of a loop"

MsgDeclared == "A variable with this name is already in scope"

MsgInitializer == "Can't read local variable in its own initializer"

MsgUnderflow == "Stack underflow"

\* a resolve_function_helper that leaves the loop kind None behind
FunctionHelperClearsLoop(sc, params, body, rest) ==
    LET r == DeclareParams(BeginScope(sc), params, 1)
    IN  IF r.panic
        THEN Panic(MsgDeclared)
        ELSE /\ current_function' = "Function"
             /\ current_loop' = "None"
             /\ scopes' = r.scopes
             /\ work' = StmtTasks(body)
                        \o <<[op |-> "end_scope"],
                             [op |-> "restore_function",
                              prev |-> current_function]>>
                        \o rest
             /\ UNCHANGED <<locals, rstatus, rmsg>>

\* resolve_function_helper, entered with scope stack sc: the enclosing kind is
\* saved, a scope is opened for the parameters and the body
FunctionHelper(sc, params, body, rest) ==
    LET r == DeclareParams(BeginScope(sc), params, 1)
    IN  IF r.panic
        THEN Panic(MsgDeclared)
        ELSE /\ current_function' = "Function"
             /\ scopes' = r.scopes
             /\ work' = StmtTasks(body)
                        \o <<[op |-> "end_scope"],
                             [op |-> "restore_function",
                              prev |-> current_function]>>
                        \o rest
             /\ UNCHANGED <<current_loop, locals, rstatus, rmsg>>

(***************************************************************************)
(* Resolver: resolve_internal, one action per statement kind               *)
(***************************************************************************)
ResolveBlock ==
    /\ AtStmt("Block")
    /\ scopes' = BeginScope(scopes)
    /\ work' = StmtTasks(Head(work).node.statements)
               \o <<[op |-> "end_scope"]>> \o Tail(work)
    /\ UNCHANGED <<prog, phase, current_function, current_loop, locals,
                   rstatus, rmsg, ivars>>

ResolveEndScope ==
    /\ AtTask("end_scope")
    /\ IF Len(scopes) = 0
       THEN Panic(MsgUnderflow)
       ELSE /\ scopes' = EndScope(scopes)
            /\ work' = Tail(work)
            /\ UNCHANGED <<current_function, current_loop, locals, rstatus,
                           rmsg>>
    /\ UNCHANGED <<prog, phase, ivars>>

ResolveVar ==
    /\ AtStmt("Var")
    /\ LET s == Head(work).node
       IN  IF DeclarePanics(scopes, s.name)
           THEN Panic(MsgDeclared)
           ELSE /\ scopes' = Declare(scopes, s.name)
                /\ work' = <<ExprTask(s.initializer),
                             [op |-> "define", name |-> s.name]>>
                           \o Tail(work)
                /\ UNCHANGED <<current_function, current_loop, locals,
                               rstatus, rmsg>>
    /\ UNCHANGED <<prog, phase, ivars>>

ResolveDefine ==
    /\ AtTask("define")
    /\ scopes' = Define(scopes, Head(work).name)
    /\ work' = Tail(work)
    /\ UNCHANGED <<prog, phase, current_function, current_loop, locals,
                   rstatus, rmsg, ivars>>

ResolveCmdFunction ==
    /\ AtStmt("CmdFunction")
    /\ LET s == Head(work).node
       IN  IF DeclarePanics(scopes, s.name)
           THEN Panic(MsgDeclared)
           ELSE /\ scopes' = Define(Declare(scopes, s.name), s.name)
                /\ work' = Tail(work)
                /\ UNCHANGED <<current_function, current_loop, locals,
                               rstatus, rmsg>>
    /\ UNCHANGED <<prog, phase, ivars>>

ResolveFunction ==
    /\ AtStmt("Function")
    /\ LET s == Head(work).node
       IN  IF DeclarePanics(scopes, s.name)
           THEN Panic(MsgDeclared)
           ELSE FunctionHelper(Define(Declare(scopes, s.name), s.name),
                               s.params, s.body, Tail(work))
    /\ UNCHANGED <<prog, phase, ivars>>

\* a resolve_function that leaves FunctionType::None behind
ResolveResetFunction ==
    /\ AtTask("restore_function")
    /\ current_function' = "None"
    /\ work' = Tail(work)
    /\ UNCHANGED <<prog, phase, scopes, current_loop, locals, rstatus, rmsg,
                   ivars>>

ResolveRestoreFunction ==
    /\ AtTask("restore_function")
    /\ current_function' = Head(work).prev
    /\ work' = Tail(work)
    /\ UNCHANGED <<prog, phase, scopes, current_loop, locals, rstatus, rmsg,
                   ivars>>

\* Expression, Print (Errors and Import resolve the same way)
ResolveExpressionStmt ==
    /\ \/ AtStmt("Expression")
       \/ AtStmt("Print")
    /\ work' = <<ExprTask(Head(work).node.expression)>> \o Tail(work)
    /\ UNCHANGED <<prog, phase, scopes, current_function, current_loop,
                   locals, rstatus, rmsg, ivars>>

ResolveIfStmt ==
    /\ AtStmt("IfStmt")
    /\ LET s == Head(work).node
       IN  work' = <<ExprTask(s.predicate), StmtTask(s.then)>>
                   \o ElifTasks(s.elif_branches, 1)
                   \o StmtTasks(s.els)
                   \o Tail(work)
    /\ UNCHANGED <<prog, phase, scopes, current_function, current_loop,
                   locals, rstatus, rmsg, ivars>>

ResolveReturnStmt ==
    /\ AtStmt("ReturnStmt")
    /\ IF current_function = "None"
       THEN Panic(MsgReturn)
       ELSE /\ work' = ExprTasks(Head(work).node.value) \o Tail(work)
            /\ UNCHANGED <<scopes, current_function, current_loop, locals,
                           rstatus, rmsg>>
    /\ UNCHANGED <<prog, phase, ivars>>

ResolveWhileStmt ==
    /\ AtStmt("WhileStmt")
    /\ LET s == Head(work).node
       IN  work' = <<ExprTask(s.condition),
                     [op |-> "loop_body", node |-> s.body]>>
                   \o Tail(work)
    /\ UNCHANGED <<prog, phase, scopes, current_function, current_loop,
                   locals, rstatus, rmsg, ivars>>

\* the rest of the WhileStmt arm, after the condition is resolved
ResolveLoopBody ==
    /\ AtTask("loop_body")
    /\ current_loop' = "Loop"
    /\ work' = <<StmtTask(Head(work).node),
                 [op |-> "restore_loop", prev |-> current_loop]>>
               \o Tail(work)
    /\ UNCHANGED <<prog, phase, scopes, current_function, locals, rstatus,
                   rmsg, ivars>>

\* a WhileStmt arm that leaves the loop flag set
ResolveKeepLoop ==
    /\ AtTask("restore_loop")
    /\ current_loop' = current_loop
    /\ work' = Tail(work)
    /\ UNCHANGED <<prog, phase, scopes, current_function, locals, rstatus,
                   rmsg, ivars>>

ResolveRestoreLoop ==
    /\ AtTask("restore_loop")
    /\ current_loop' = Head(work).prev
    /\ work' = Tail(work)
    /\ UNCHANGED <<prog, phase, scopes, current_function, locals, rstatus,
                   rmsg, ivars>>

ResolveBreakStmt ==
    /\ AtStmt("BreakStmt")
    /\ IF current_loop = "None"
       THEN Panic(MsgBreak)
       ELSE /\ work' = Tail(work)
            /\ UNCHANGED <<scopes, current_function, current_loop, locals,
                           rstatus, rmsg>>
    /\ UNCHANGED <<prog, phase, ivars>>

\* A class opens no resolver scope and declares no name; each method is
\* resolved as a function body is.
ResolveClass ==
    /\ AtStmt("Class")
    /\ LET s == Head(work).node
       IN  work' = [i \in 1..Len(s.methods) |->
                       [op |-> "method", node |-> s.methods[i]]]
                   \o Tail(work)
    /\ UNCHANGED <<prog, phase, scopes, current_function, current_loop,
                   locals, rstatus, rmsg, ivars>>

ResolveMethod ==
    /\ AtTask("method")
    /\ FunctionHelper(scopes, Head(work).node.params, Head(work).node.body,
                      Tail(work))
    /\ UNCHANGED <<prog, phase, ivars>>

(***************************************************************************)
(* Resolver: resolve_expr, one action per expression kind                  *)
(***************************************************************************)
ResolveExprVariable ==
    /\ AtExpr("Variable")
    /\ LET e == Head(work).node
       IN  IF ReadsOwnInitializer(scopes, e.name)
           THEN Panic(MsgInitializer)
           ELSE /\ locals' = ResolveLocal(scopes, locals, e.name, e.id)
                /\ work' = Tail(work)
                /\ UNCHANGED <<scopes, current_function, current_loop,
                               rstatus, rmsg>>
    /\ UNCHANGED <<prog, phase, ivars>>

ResolveExprAssign ==
    /\ AtExpr("Assign")
    /\ LET e == Head(work).node
       IN  work' = <<ExprTask(e.value),
                     [op |-> "resolve_local", name |-> e.name, id |-> e.id]>>
                   \o Tail(work)
    /\ UNCHANGED <<prog, phase, scopes, current_function, current_loop,
                   locals, rstatus, rmsg, ivars>>

\* the rest of resolve_expr_assign, after the value is resolved
ResolveAssignTarget ==
    /\ AtTask("resolve_local")
    /\ locals' = ResolveLocal(scopes, locals, Head(work).name, Head(work).id)
    /\ work' = Tail(work)
    /\ UNCHANGED <<prog, phase, scopes, current_function, current_loop,
                   rstatus, rmsg, ivars>>

\* Binary (Logical resolves the same way)
ResolveExprBinary ==
    /\ AtExpr("Binary")
    /\ LET e == Head(work).node
       IN  work' = <<ExprTask(e.left), ExprTask(e.right)>> \o Tail(work)
    /\ UNCHANGED <<prog, phase, scopes, current_function, current_loop,
                   locals, rstatus, rmsg, ivars>>

ResolveExprCall ==
    /\ AtExpr("Call")
    /\ LET e == Head(work).node
       IN  work' = <<ExprTask(e.callee)>> \o ExprTasks(e.arguments)
                   \o Tail(work)
    /\ UNCHANGED <<prog, phase, scopes, current_function, current_loop,
                   locals, rstatus, rmsg, ivars>>

ResolveExprLiteral ==
    /\ AtExpr("Literal")
    /\ work' = Tail(work)
    /\ UNCHANGED <<prog, phase, scopes, current_function, current_loop,
                   locals, rstatus, rmsg, ivars>>

ResolveExprAnonFunction ==
    /\ AtExpr("AnonFunction")
    /\ FunctionHelper(scopes, Head(work).node.arguments,
                      Head(work).node.body, Tail(work))
    /\ UNCHANGED <<prog, phase, ivars>>

\* resolve: resolve_many returned, so the distance map is the result
ResolveDone ==
    /\ phase = "resolve"
    /\ rstatus = ""
    /\ Len(work) = 0
    /\ rstatus' = "ok"
    /\ UNCHANGED <<prog, phase, scopes, current_function, current_loop,
                   locals, work, rmsg, ivars>>

(***************************************************************************)
(* Environment chain.  An Environment handle is an index into heap, so a   *)
(* clone of a handle reaches the same bindings as the handle.              *)
(***************************************************************************)
EnvDefine(h, env, name, value) ==
    [h EXCEPT ![env].vars = Put(@, name, value)]

\* enclose: the new scope is the last one of the result
EnvEnclose(h, env) == Append(h, [vars |-> EmptyMap, enclosing |-> env])

\* the scope distance links out of env, 0 when the chain is shorter
RECURSIVE Ancestor(_, _, _)
Ancestor(h, env, distance) ==
    IF env = 0 \/ distance = 0 THEN env
    ELSE Ancestor(h, h[env].enclosing, distance - 1)

RECURSIVE GlobalOf(_, _)
GlobalOf(h, env) ==
    IF h[env].enclosing = 0 THEN env ELSE GlobalOf(h, h[env].enclosing)

\* get (fallback): the first scope, innermost first, that binds the name
RECURSIVE FirstScopeWith(_, _, _)
FirstScopeWith(h, env, name) ==
    IF env = 0 THEN 0
    ELSE IF name \in DOMAIN h[env].vars THEN env
    ELSE FirstScopeWith(h, h[env].enclosing, name)

\* get_at: exactly distance links out, and the name must be bound there
ScopeAt(h, env, distance, name) ==
    LET sc == Ancestor(h, env, distance)
    IN  IF sc # 0 /\ name \in DOMAIN h[sc].vars THEN sc ELSE 0

\* the scope a reference with node id denotes, 0 when it is unbound
LookupScope(h, env, loc, name, id) ==
    IF id \in DOMAIN loc THEN ScopeAt(h, env, loc[id], name)
    ELSE FirstScopeWith(h, env, name)

\* assign_global: only the outermost scope, only an existing binding
AssignGlobalOk(h, env, name) == name \in DOMAIN h[GlobalOf(h, env)].vars

AssignGlobal(h, env, name, value) == EnvDefine(h, GlobalOf(h, env), name, value)

(***************************************************************************)
(* Values the interpreter builds                                           *)
(***************************************************************************)
\* a make_function whose callable keeps the global environment
MakeFunctionGlobal(env, fn_stmt) ==
    [kind |-> "fun", name |-> fn_stmt.name, arity |-> Len(fn_stmt.params),
     params |-> fn_stmt.params, body |-> fn_stmt.body, parent_env |-> 1]

\* make_function: the callable keeps the handle of the current environment
MakeFunction(env, fn_stmt) ==
    [kind |-> "fun", name |-> fn_stmt.name, arity |-> Len(fn_stmt.params),
     params |-> fn_stmt.params, body |-> fn_stmt.body, parent_env |-> env]

\* methods_map: a later member replaces an earlier one of the same name
MethodsMap(env, methods) ==
    [n \in {methods[i].name : i \in 1..Len(methods)} |->
        MakeFunction(env,
            methods[SetMax({i \in 1..Len(methods) : methods[i].name = n})])]

ClassValue(name, methods_map, superclass_value) ==
    [kind |-> "class", name |-> name, methods |-> methods_map,
     superclass |-> superclass_value]

NativeCommand(name, cmd) ==
    [kind |-> "native", name |-> name, arity |-> 0, cmd |-> cmd]

IsTruthy(v) ==
    CASE v.kind = "bool" -> v.b
      [] v.kind = "nil" -> FALSE
      [] v.kind = "num" -> v.n # 0
      [] OTHER -> TRUE

ToType(v) ==
    CASE v.kind = "num" -> "Number"
      [] v.kind = "str" -> "String"
      [] v.kind = "bool" -> "Boolean"
      [] v.kind = "nil" -> "nil"
      [] v.kind = "class" -> "Class"
      [] OTHER -> "Callable"

\* cmd.split(" "): a token ends at every space
RECURSIVE Split(_, _)
Split(chars, token) ==
    IF chars = <<>> THEN <<token>>
    ELSE IF Head(chars) = " " THEN <<token>> \o Split(Tail(chars), <<>>)
    ELSE Split(Tail(chars), Append(token, Head(chars)))

\* a replace that takes a quote off each end of the token only
RemoveQuotesAtEnds(chars) ==
    LET from == IF chars # <<>> /\ chars[1] = "\"" THEN 2 ELSE 1
        to == IF Len(chars) >= from /\ chars[Len(chars)] = "\""
              THEN Len(chars) - 1 ELSE Len(chars)
    IN  SubSeq(chars, from, to)

\* part.replace("\"", "")
RECURSIVE RemoveQuotes(_)
RemoveQuotes(chars) ==
    IF chars = <<>> THEN <<>>
    ELSE IF Head(chars) = "\"" THEN RemoveQuotes(Tail(chars))
    ELSE <<Head(chars)>> \o RemoveQuotes(Tail(chars))

\* the process the command-backed function spawns
CommandLine(cmd) ==
    LET parts == Split(cmd, <<>>)
    IN  [program |-> RemoveQuotes(parts[1]),
         args |-> [i \in 1..(Len(parts) - 1) |-> RemoveQuotes(parts[i + 1])]]

(***************************************************************************)
(* Interpreter: pending work                                               *)
(***************************************************************************)
Task(o) == [op |-> o]

EvalTask(e) == [op |-> "eval", node |-> e]

EvalTasks(exprs) == [i \in 1..Len(exprs) |-> EvalTask(exprs[i])]

CurEnv == interps[Len(interps)].environment

CurSpecials == interps[Len(interps)].specials

\* interpret(stmts), called with env current: the statements in order, then
\* the return to the caller
InterpretTasks(stmts, env) ==
    StmtTasks(stmts) \o <<[op |-> "interpret_return", start |-> env]>>

Running == phase = "run" /\ Len(kont) > 0

Failing == err # <<>>

Exec(k) ==
    Running /\ ~Failing /\ Head(kont).op = "stmt" /\ Head(kont).node.kind = k

Eval(k) ==
    Running /\ ~Failing /\ Head(kont).op = "eval" /\ Head(kont).node.kind = k

Cont(o) == Running /\ ~Failing /\ Head(kont).op = o

\* return Err(msg): the values of the abandoned expression are dropped
Fail(msg) == err' = msg /\ vals' = <<>> /\ kont' = Tail(kont)

SetEnvironment(env) ==
    interps' = [interps EXCEPT ![Len(interps)].environment = env]

MsgUnbound(name) == <<"Undefined variable", name>>

MsgSuperclass(v) == <<"Superclass must be a class, not", ToType(v)>>

MsgClassFailed(name) == <<"Class definition failed for", name>>

MsgOperands == <<"Operator is not implemented for operands">>

MsgNotCallable == <<"Not callable">>

MsgArity == <<"Wrong number of arguments">>

(***************************************************************************)
(* Interpreter: interpret, one action per statement kind                   *)
(***************************************************************************)
ExecExpression ==
    /\ Exec("Expression")
    /\ kont' = <<EvalTask(Head(kont).node.expression), Task("discard")>>
               \o Tail(kont)
    /\ UNCHANGED <<prog, phase, rvars, heap, interps, vals, err, output,
                   spawned>>

ExecDiscard ==
    /\ Cont("discard")
    /\ vals' = Tail(vals)
    /\ kont' = Tail(kont)
    /\ UNCHANGED <<prog, phase, rvars, heap, interps, err, output, spawned>>

ExecPrint ==
    /\ Exec("Print")
    /\ kont' = <<EvalTask(Head(kont).node.expression), Task("print")>>
               \o Tail(kont)
    /\ UNCHANGED <<prog, phase, rvars, heap, interps, vals, err, output,
                   spawned>>

ExecPrintValue ==
    /\ Cont("print")
    /\ output' = Append(output, Head(vals))
    /\ vals' = Tail(vals)
    /\ kont' = Tail(kont)
    /\ UNCHANGED <<prog, phase, rvars, heap, interps, err, spawned>>

ExecVar ==
    /\ Exec("Var")
    /\ kont' = <<EvalTask(Head(kont).node.initializer),
                 [op |-> "define", name |-> Head(kont).node.name]>>
               \o Tail(kont)
    /\ UNCHANGED <<prog, phase, rvars, heap, interps, vals, err, output,
                   spawned>>

\* a Var arm that defines in the outermost scope
ExecVarDefineGlobal ==
    /\ Cont("define")
    /\ heap' = EnvDefine(heap, GlobalOf(heap, CurEnv), Head(kont).name,
                         Head(vals))
    /\ vals' = Tail(vals)
    /\ kont' = Tail(kont)
    /\ UNCHANGED <<prog, phase, rvars, interps, err, output, spawned>>

ExecVarDefine ==
    /\ Cont("define")
    /\ heap' = EnvDefine(heap, CurEnv, Head(kont).name, Head(vals))
    /\ vals' = Tail(vals)
    /\ kont' = Tail(kont)
    /\ UNCHANGED <<prog, phase, rvars, interps, err, output, spawned>>

\* a Block arm that applies ? to the inner interpret before restoring
BlockExitEarlyReturn(old_environment, current, failed) ==
    IF failed THEN current ELSE old_environment

\* a Block arm that runs its statements in the current environment
ExecBlockNoScope ==
    /\ Exec("Block")
    /\ kont' = InterpretTasks(Head(kont).node.statements, CurEnv)
               \o <<[op |-> "block_exit", old |-> CurEnv]>>
               \o Tail(kont)
    /\ UNCHANGED <<prog, phase, rvars, heap, interps, vals, err, output,
                   spawned>>

\* the environment the Block arm leaves current, entered with old_environment
\* saved and left with the environment current after the inner statements
BlockExitEnvironment(old_environment, current, failed) == old_environment

ExecBlock ==
    /\ Exec("Block")
    /\ heap' = EnvEnclose(heap, CurEnv)
    /\ SetEnvironment(Len(heap) + 1)
    /\ kont' = InterpretTasks(Head(kont).node.statements, Len(heap) + 1)
               \o <<[op |-> "block_exit", old |-> CurEnv]>>
               \o Tail(kont)
    /\ UNCHANGED <<prog, phase, rvars, vals, err, output, spawned>>

\* a Block arm that drops block_result: the failure ends at the block
ExecBlockExitSwallows ==
    /\ Running
    /\ Head(kont).op = "block_exit"
    /\ SetEnvironment(BlockExitEnvironment(Head(kont).old, CurEnv, Failing))
    /\ kont' = Tail(kont)
    /\ err' = <<>>
    /\ UNCHANGED <<prog, phase, rvars, heap, vals, output, spawned>>

\* the rest of the Block arm: runs whether the inner interpret failed or not,
\* and then block_result? passes a failure on
ExecBlockExit ==
    /\ Running
    /\ Head(kont).op = "block_exit"
    /\ SetEnvironment(BlockExitEnvironment(Head(kont).old, CurEnv, Failing))
    /\ kont' = Tail(kont)
    /\ UNCHANGED <<prog, phase, rvars, heap, vals, err, output, spawned>>

\* interpret returns, Ok(()) or the Err being passed on, to its caller
InterpretReturn ==
    /\ Running
    /\ Head(kont).op = "interpret_return"
    /\ kont' = Tail(kont)
    /\ UNCHANGED <<prog, phase, rvars, heap, interps, vals, err, output,
                   spawned>>

\* the ? operator: the rest of the failed handler and the statements after it
\* are skipped
Propagate ==
    /\ Running
    /\ Failing
    /\ Head(kont).op \notin {"interpret_return", "block_exit", "call_return"}
    /\ kont' = Tail(kont)
    /\ UNCHANGED <<prog, phase, rvars, heap, interps, vals, err, output,
                   spawned>>

\* a Class arm that defines super before it encloses the environment
ClassBodySuperOutside(s, superclass_value, rest) ==
    LET defined == EnvDefine(heap, CurEnv, s.name, Nil)
        scope == Len(heap) + 1
        bound == IF superclass_value = None THEN defined
                 ELSE EnvDefine(defined, CurEnv, "super", superclass_value[1])
        enclosed == EnvEnclose(bound, CurEnv)
        klass == ClassValue(s.name, MethodsMap(scope, s.methods),
                            superclass_value)
    IN  IF AssignGlobalOk(enclosed, scope, s.name)
        THEN /\ heap' = AssignGlobal(enclosed, scope, s.name, klass)
             /\ SetEnvironment(enclosed[scope].enclosing)
             /\ kont' = rest
             /\ UNCHANGED err
        ELSE /\ heap' = enclosed
             /\ SetEnvironment(scope)
             /\ kont' = rest
             /\ err' = MsgClassFailed(s.name)

\* a Class arm without its last line: the class scope stays current
ClassBodyNoRestore(s, superclass_value, rest) ==
    LET defined == EnvDefine(heap, CurEnv, s.name, Nil)
        scope == Len(heap) + 1
        enclosed == EnvEnclose(defined, CurEnv)
        bound == IF superclass_value = None THEN enclosed
                 ELSE EnvDefine(enclosed, scope, "super", superclass_value[1])
        klass == ClassValue(s.name, MethodsMap(scope, s.methods),
                            superclass_value)
    IN  IF AssignGlobalOk(bound, scope, s.name)
        THEN /\ heap' = AssignGlobal(bound, scope, s.name, klass)
             /\ SetEnvironment(scope)
             /\ kont' = rest
             /\ UNCHANGED err
        ELSE /\ heap' = bound
             /\ SetEnvironment(scope)
             /\ kont' = rest
             /\ err' = MsgClassFailed(s.name)

\* the Class arm from the placeholder on, with the superclass evaluated
\* a Class arm that binds the class value where the placeholder is
ClassBodyAssignsLocally(s, superclass_value, rest) ==
    LET defined == EnvDefine(heap, CurEnv, s.name, Nil)
        scope == Len(heap) + 1
        enclosed == EnvEnclose(defined, CurEnv)
        bound == IF superclass_value = None THEN enclosed
                 ELSE EnvDefine(enclosed, scope, "super", superclass_value[1])
        klass == ClassValue(s.name, MethodsMap(scope, s.methods),
                            superclass_value)
    IN  /\ heap' = EnvDefine(bound, CurEnv, s.name, klass)
        /\ SetEnvironment(bound[scope].enclosing)
        /\ kont' = rest
        /\ UNCHANGED err

ClassBody(s, superclass_value, rest) ==
    LET defined == EnvDefine(heap, CurEnv, s.name, Nil)
        scope == Len(heap) + 1
        enclosed == EnvEnclose(defined, CurEnv)
        bound == IF superclass_value = None THEN enclosed
                 ELSE EnvDefine(enclosed, scope, "super", superclass_value[1])
        klass == ClassValue(s.name, MethodsMap(scope, s.methods),
                            superclass_value)
    IN  IF AssignGlobalOk(bound, scope, s.name)
        THEN /\ heap' = AssignGlobal(bound, scope, s.name, klass)
             /\ SetEnvironment(bound[scope].enclosing)
             /\ kont' = rest
             /\ UNCHANGED err
        ELSE /\ heap' = bound
             /\ SetEnvironment(scope)
             /\ kont' = rest
             /\ err' = MsgClassFailed(s.name)

ExecClass ==
    /\ Exec("Class")
    /\ LET s == Head(kont).node
       IN  IF s.superclass = None
           THEN ClassBody(s, None, Tail(kont)) /\ UNCHANGED vals
           ELSE /\ kont' = <<EvalTask(s.superclass[1]),
                             [op |-> "class_body", node |-> s]>>
                           \o Tail(kont)
                /\ UNCHANGED <<heap, interps, vals, err>>
    /\ UNCHANGED <<prog, phase, rvars, output, spawned>>

\* a Class arm that defines the placeholder before it looks at the superclass
ExecClassBodyPlaceholderFirst ==
    /\ Cont("class_body")
    /\ IF Head(vals).kind = "class"
       THEN ClassBody(Head(kont).node, Some(Head(vals)), Tail(kont))
            /\ vals' = IF err' = <<>> THEN Tail(vals) ELSE <<>>
       ELSE /\ Fail(MsgSuperclass(Head(vals)))
            /\ heap' = EnvDefine(heap, CurEnv, Head(kont).node.name, Nil)
            /\ UNCHANGED interps
    /\ UNCHANGED <<prog, phase, rvars, output, spawned>>

ExecClassBody ==
    /\ Cont("class_body")
    /\ IF Head(vals).kind = "class"
       THEN ClassBody(Head(kont).node, Some(Head(vals)), Tail(kont))
            /\ vals' = IF err' = <<>> THEN Tail(vals) ELSE <<>>
       ELSE Fail(MsgSuperclass(Head(vals))) /\ UNCHANGED <<heap, interps>>
    /\ UNCHANGED <<prog, phase, rvars, output, spawned>>

\* IfStmt and IfShortStmt
ExecIf ==
    /\ Exec("IfStmt")
    /\ kont' = <<EvalTask(Head(kont).node.predicate),
                 [op |-> "if_branch", node |-> Head(kont).node]>>
               \o Tail(kont)
    /\ UNCHANGED <<prog, phase, rvars, heap, interps, vals, err, output,
                   spawned>>

ExecIfBranch ==
    /\ Cont("if_branch")
    /\ LET s == Head(kont).node
       IN  kont' = (IF IsTruthy(Head(vals))
                    THEN InterpretTasks(<<s.then>>, CurEnv)
                    ELSE IF s.els # None
                         THEN InterpretTasks(s.els, CurEnv)
                         ELSE <<>>)
                   \o Tail(kont)
    /\ vals' = Tail(vals)
    /\ UNCHANGED <<prog, phase, rvars, heap, interps, err, output, spawned>>

ExecWhile ==
    /\ Exec("WhileStmt")
    /\ kont' = <<EvalTask(Head(kont).node.condition),
                 [op |-> "while_test", node |-> Head(kont).node]>>
               \o Tail(kont)
    /\ UNCHANGED <<prog, phase, rvars, heap, interps, vals, err, output,
                   spawned>>

\* a WhileStmt arm that runs the body once and never evaluates the condition
\* again
ExecWhileTestOnce ==
    /\ Cont("while_test")
    /\ LET s == Head(kont).node
       IN  kont' = (IF IsTruthy(Head(vals))
                    THEN InterpretTasks(<<s.body>>, CurEnv)
                    ELSE <<>>)
                   \o Tail(kont)
    /\ vals' = Tail(vals)
    /\ UNCHANGED <<prog, phase, rvars, heap, interps, err, output, spawned>>

ExecWhileTest ==
    /\ Cont("while_test")
    /\ LET s == Head(kont).node
       IN  kont' = (IF IsTruthy(Head(vals))
                    THEN InterpretTasks(<<s.body>>, CurEnv)
                         \o <<EvalTask(s.condition), Head(kont)>>
                    ELSE <<>>)
                   \o Tail(kont)
    /\ vals' = Tail(vals)
    /\ UNCHANGED <<prog, phase, rvars, heap, interps, err, output, spawned>>

ExecFunction ==
    /\ Exec("Function")
    /\ heap' = EnvDefine(heap, CurEnv, Head(kont).node.name,
                         MakeFunction(CurEnv, Head(kont).node))
    /\ kont' = Tail(kont)
    /\ UNCHANGED <<prog, phase, rvars, interps, vals, err, output, spawned>>

ExecCmdFunction ==
    /\ Exec("CmdFunction")
    /\ heap' = EnvDefine(heap, CurEnv, Head(kont).node.name,
                         NativeCommand(Head(kont).node.name,
                                       Head(kont).node.cmd))
    /\ kont' = Tail(kont)
    /\ UNCHANGED <<prog, phase, rvars, interps, vals, err, output, spawned>>

ExecReturn ==
    /\ Exec("ReturnStmt")
    /\ IF Head(kont).node.value = None
       THEN /\ interps' = [interps EXCEPT ![Len(interps)].specials =
                              Put(@, "return", Nil)]
            /\ kont' = Tail(kont)
       ELSE /\ kont' = <<EvalTask(Head(kont).node.value[1]),
                         Task("return_store")>>
                       \o Tail(kont)
            /\ UNCHANGED interps
    /\ UNCHANGED <<prog, phase, rvars, heap, vals, err, output, spawned>>

\* a ReturnStmt arm that ends the function body: nothing is left to run before
\* the call returns
RECURSIVE UpToCallReturn(_)
UpToCallReturn(k) ==
    IF k = <<>> \/ Head(k).op = "call_return" THEN k
    ELSE UpToCallReturn(Tail(k))

ExecReturnStoreAndStop ==
    /\ Cont("return_store")
    /\ interps' = [interps EXCEPT ![Len(interps)].specials =
                      Put(@, "return", Head(vals))]
    /\ vals' = Tail(vals)
    /\ kont' = UpToCallReturn(kont)
    /\ UNCHANGED <<prog, phase, rvars, heap, err, output, spawned>>

ExecReturnStore ==
    /\ Cont("return_store")
    /\ interps' = [interps EXCEPT ![Len(interps)].specials =
                      Put(@, "return", Head(vals))]
    /\ vals' = Tail(vals)
    /\ kont' = Tail(kont)
    /\ UNCHANGED <<prog, phase, rvars, heap, err, output, spawned>>

(***************************************************************************)
(* Interpreter: evaluate, one action per expression kind                   *)
(***************************************************************************)
Push(v) == vals' = <<v>> \o vals

EvalLiteral ==
    /\ Eval("Literal")
    /\ Push(Head(kont).node.value)
    /\ kont' = Tail(kont)
    /\ UNCHANGED <<prog, phase, rvars, heap, interps, err, output, spawned>>

EvalVariable ==
    /\ Eval("Variable")
    /\ LET e == Head(kont).node
           sc == LookupScope(heap, CurEnv, locals, e.name, e.id)
       IN  IF sc = 0
           THEN Fail(MsgUnbound(e.name))
           ELSE Push(heap[sc].vars[e.name]) /\ kont' = Tail(kont)
                /\ UNCHANGED err
    /\ UNCHANGED <<prog, phase, rvars, heap, interps, output, spawned>>

EvalAssign ==
    /\ Eval("Assign")
    /\ LET e == Head(kont).node
       IN  kont' = <<EvalTask(e.value),
                     [op |-> "assign", name |-> e.name, id |-> e.id]>>
                   \o Tail(kont)
    /\ UNCHANGED <<prog, phase, rvars, heap, interps, vals, err, output,
                   spawned>>

\* the value stays: it is the value of the assignment
EvalAssignStore ==
    /\ Cont("assign")
    /\ LET t == Head(kont)
           sc == LookupScope(heap, CurEnv, locals, t.name, t.id)
       IN  IF sc = 0
           THEN Fail(MsgUnbound(t.name)) /\ UNCHANGED heap
           ELSE /\ heap' = EnvDefine(heap, sc, t.name, Head(vals))
                /\ kont' = Tail(kont)
                /\ UNCHANGED <<vals, err>>
    /\ UNCHANGED <<prog, phase, rvars, interps, output, spawned>>

EvalBinary ==
    /\ Eval("Binary")
    /\ LET e == Head(kont).node
       IN  kont' = <<EvalTask(e.left), EvalTask(e.right),
                     [op |-> "binary", operator |-> e.operator]>>
                   \o Tail(kont)
    /\ UNCHANGED <<prog, phase, rvars, heap, interps, vals, err, output,
                   spawned>>

EvalBinaryApply ==
    /\ Cont("binary")
    /\ LET right == vals[1]
           left == vals[2]
           operator == Head(kont).operator
       IN  IF left.kind = "num" /\ right.kind = "num"
           THEN /\ vals' = <<IF operator = "+" THEN Num(left.n + right.n)
                             ELSE Bool(left.n < right.n)>>
                           \o Tail(Tail(vals))
                /\ kont' = Tail(kont)
                /\ UNCHANGED err
           ELSE Fail(MsgOperands)
    /\ UNCHANGED <<prog, phase, rvars, heap, interps, output, spawned>>

EvalAnonFunction ==
    /\ Eval("AnonFunction")
    /\ LET e == Head(kont).node
       IN  Push([kind |-> "fun", name |-> "anon_funciton",
                 arity |-> Len(e.arguments), params |-> e.arguments,
                 body |-> e.body, parent_env |-> CurEnv])
    /\ kont' = Tail(kont)
    /\ UNCHANGED <<prog, phase, rvars, heap, interps, err, output, spawned>>

EvalCall ==
    /\ Eval("Call")
    /\ LET e == Head(kont).node
       IN  kont' = <<EvalTask(e.callee)>> \o EvalTasks(e.arguments)
                   \o <<[op |-> "call", argc |-> Len(e.arguments)]>>
                   \o Tail(kont)
    /\ UNCHANGED <<prog, phase, rvars, heap, interps, vals, err, output,
                   spawned>>

\* the environment of a call: a scope enclosing the callee's captured
\* environment, binding the parameters to the arguments
RECURSIVE BindParams(_, _, _, _, _)
BindParams(h, env, params, args, i) ==
    IF i > Len(params) THEN h
    ELSE BindParams(EnvDefine(h, env, params[i], args[i]), env, params, args,
                    i + 1)

\* a user function runs its body in an interpreter of its own (with_env)
EvalCallFunction ==
    /\ Cont("call")
    /\ LET argc == Head(kont).argc
           callee == vals[argc + 1]
           args == [i \in 1..argc |-> vals[argc + 1 - i]]
           env == Len(heap) + 1
       IN  /\ callee.kind = "fun"
           /\ IF callee.arity # argc
              THEN Fail(MsgArity) /\ UNCHANGED <<heap, interps>>
              ELSE /\ heap' = BindParams(EnvEnclose(heap, callee.parent_env),
                                         env, callee.params, args, 1)
                   /\ interps' = Append(interps, [environment |-> env,
                                                  specials |-> EmptyMap])
                   /\ kont' = InterpretTasks(callee.body, env)
                              \o <<Task("call_return")>> \o Tail(kont)
                   /\ vals' = SubSeq(vals, argc + 2, Len(vals))
                   /\ UNCHANGED err
    /\ UNCHANGED <<prog, phase, rvars, output, spawned>>

\* the call's value is what the body's interpreter holds under "return"
EvalCallReturn ==
    /\ Running
    /\ Head(kont).op = "call_return"
    /\ interps' = SubSeq(interps, 1, Len(interps) - 1)
    /\ vals' = IF Failing THEN <<>>
               ELSE <<IF "return" \in DOMAIN CurSpecials
                      THEN CurSpecials["return"] ELSE Nil>> \o vals
    /\ kont' = Tail(kont)
    /\ UNCHANGED <<prog, phase, rvars, heap, err, output, spawned>>

\* what a spawned process hands back: the bytes of its standard output (text,
\* or bytes that are no UTF-8) and of its standard error
NotUtf8 == "bytes that are no UTF-8"

ProcessOutputs == [stdout : {"", "out", NotUtf8}, stderr : {"", "err"}]

\* a command-backed function ignores its arguments, spawns the command and
\* returns its standard output; a spawn that fails, and an output that is no
\* UTF-8, end the process (expect, unwrap)
EvalCallNative ==
    /\ Cont("call")
    /\ LET argc == Head(kont).argc
           callee == vals[argc + 1]
       IN  /\ callee.kind = "native"
           /\ \/ /\ phase' = "aborted"
                 /\ UNCHANGED <<spawned, vals, kont>>
              \/ \E o \in ProcessOutputs :
                    /\ spawned' = Append(spawned,
                                         [line |-> CommandLine(callee.cmd),
                                          out |-> o])
                    /\ IF o.stdout = NotUtf8
                       THEN phase' = "aborted" /\ UNCHANGED <<vals, kont>>
                       ELSE /\ vals' = <<Str(o.stdout)>>
                                       \o SubSeq(vals, argc + 2, Len(vals))
                            /\ kont' = Tail(kont)
                            /\ UNCHANGED phase
    /\ UNCHANGED <<prog, rvars, heap, interps, err, output>>

EvalCallOther ==
    /\ Cont("call")
    /\ vals[Head(kont).argc + 1].kind \notin {"fun", "native", "class"}
    /\ Fail(MsgNotCallable)
    /\ UNCHANGED <<prog, phase, rvars, heap, interps, output, spawned>>

(***************************************************************************)
(* The lexical structure of a program, read off the syntax tree alone.     *)
(* A position is the path of child indices from the root, so positions are *)
(* ordered as the text is; a scope is named by the position of the block,  *)
(* function or lambda that opens it, and chain lists the scopes around a   *)
(* position, outermost first (empty at global level).  fn and lp count the *)
(* function bodies and while bodies around the position; init holds the    *)
(* name whose initializer, in the innermost scope, the position is in.     *)
(***************************************************************************)
Fact(f, name, id, pos, ctx) ==
    [f |-> f, name |-> name, id |-> id, pos |-> pos, chain |-> ctx.chain,
     fn |-> ctx.fn, lp |-> ctx.lp, init |-> ctx.init]

GlobalContext == [chain |-> <<>>, fn |-> 0, lp |-> 0, init |-> {}]

RECURSIVE WalkStmt(_, _, _)
RECURSIVE WalkExpr(_, _, _)

WalkStmts(stmts, pos, ctx, from) ==
    UNION {WalkStmt(stmts[i], Append(pos, from + i), ctx) : i \in 1..Len(stmts)}

WalkExprs(exprs, pos, ctx, from) ==
    UNION {WalkExpr(exprs[i], Append(pos, from + i), ctx) : i \in 1..Len(exprs)}

\* parameters and body statements share the scope the function opens
WalkBody(params, body, pos, ctx) ==
    LET inner == [chain |-> Append(ctx.chain, pos), fn |-> ctx.fn + 1,
                  lp |-> ctx.lp, init |-> {}]
    IN  {Fact("decl", params[i], 0, pos \o <<0, i>>, inner) :
            i \in 1..Len(params)}
        \cup WalkStmts(body, pos, inner, 0)

WalkStmt(s, pos, ctx) ==
    CASE s.kind = "Block" ->
            WalkStmts(s.statements, pos,
                      [ctx EXCEPT !.chain = Append(@, pos), !.init = {}], 0)
      [] s.kind = "Var" ->
            {Fact("decl", s.name, 0, pos, ctx)}
            \cup WalkExpr(s.initializer, Append(pos, 1),
                          [ctx EXCEPT !.init = {s.name}])
      [] s.kind = "CmdFunction" -> {Fact("decl", s.name, 0, pos, ctx)}
      [] s.kind = "Function" ->
            {Fact("decl", s.name, 0, pos, ctx)}
            \cup WalkBody(s.params, s.body, pos, ctx)
      [] s.kind \in {"Expression", "Print"} ->
            WalkExpr(s.expression, Append(pos, 1), ctx)
      [] s.kind = "IfStmt" ->
            WalkExpr(s.predicate, Append(pos, 1), ctx)
            \cup WalkStmt(s.then, Append(pos, 2), ctx)
            \cup UNION {WalkExpr(s.elif_branches[i][1],
                                 Append(pos, 2 * i + 1), ctx)
                        \cup WalkStmt(s.elif_branches[i][2],
                                      Append(pos, 2 * i + 2), ctx) :
                        i \in 1..Len(s.elif_branches)}
            \cup WalkStmts(s.els, pos, ctx, 2 * Len(s.elif_branches) + 2)
      [] s.kind = "WhileStmt" ->
            WalkExpr(s.condition, Append(pos, 1), ctx)
            \cup WalkStmt(s.body, Append(pos, 2), [ctx EXCEPT !.lp = @ + 1])
      [] s.kind = "ReturnStmt" ->
            {Fact("return", "", 0, pos, ctx)}
            \cup WalkExprs(s.value, pos, ctx, 0)
      [] s.kind = "BreakStmt" -> {Fact("break", "", 0, pos, ctx)}
      [] s.kind = "Class" ->
            UNION {WalkBody(s.methods[i].params, s.methods[i].body,
                            Append(pos, i), ctx) : i \in 1..Len(s.methods)}

WalkExpr(e, pos, ctx) ==
    CASE e.kind = "Literal" -> {}
      [] e.kind = "Variable" -> {Fact("read", e.name, e.id, pos, ctx)}
      [] e.kind = "Assign" ->
            WalkExpr(e.value, Append(pos, 1), ctx)
            \cup {Fact("write", e.name, e.id, Append(pos, 2), ctx)}
      [] e.kind = "Binary" ->
            WalkExpr(e.left, Append(pos, 1), ctx)
            \cup WalkExpr(e.right, Append(pos, 2), ctx)
      [] e.kind = "Call" ->
            WalkExpr(e.callee, Append(pos, 1), ctx)
            \cup WalkExprs(e.arguments, pos, ctx, 1)
      [] e.kind = "AnonFunction" -> WalkBody(e.arguments, e.body, pos, ctx)

Facts(p) == WalkStmts(p.stmts, <<>>, GlobalContext, 0)

Decls(p) == {x \in Facts(p) : x.f = "decl"}

Refs(p) == {x \in Facts(p) : x.f \in {"read", "write"}}

IsPrefix(s, t) == Len(s) <= Len(t) /\ SubSeq(t, 1, Len(s)) = s

\* position s comes before position t in the text
Before(s, t) ==
    \/ Len(s) < Len(t) /\ IsPrefix(s, t)
    \/ \E k \in 1..Len(s) :
          /\ k <= Len(t)
          /\ s[k] < t[k]
          /\ SubSeq(s, 1, k - 1) = SubSeq(t, 1, k - 1)

\* the declarations of r's name, in a block or function scope around r, that
\* come before r
VisibleDecls(p, r) ==
    {d \in Decls(p) : /\ d.name = r.name
                      /\ d.chain # <<>>
                      /\ IsPrefix(d.chain, r.chain)
                      /\ Before(d.pos, r.pos)}

\* scopes opened between the declaring scope and the reference
ScopesBetween(d, r) == Len(r.chain) - Len(d.chain)

\* no declaration hides a declaration of the same name in a scope around it
NoShadowing(p) ==
    \A d1 \in Decls(p), d2 \in Decls(p) :
        d1.name = d2.name /\ IsPrefix(d1.chain, d2.chain) =>
            d1.chain = d2.chain

\* the same name declared twice in one block or function scope
DeclaredTwice(p) ==
    \E d1 \in Decls(p), d2 \in Decls(p) :
        /\ d1.name = d2.name
        /\ d1.chain = d2.chain
        /\ d1.chain # <<>>
        /\ d1.pos # d2.pos

\* a Var in a block or function scope whose initializer reads the variable
ReadsOwnVar(p) ==
    \E r \in Facts(p) : r.f = "read" /\ r.chain # <<>> /\ r.name \in r.init

ReturnOutsideFunction(p) == \E x \in Facts(p) : x.f = "return" /\ x.fn = 0

BreakOutsideLoop(p) == \E x \in Facts(p) : x.f = "break" /\ x.lp = 0

(***************************************************************************)
(* The driver: resolve, then hand the distance map to the interpreter      *)
(***************************************************************************)
\* this interpreter has no arm for BreakStmt
Runnable(p) == \A x \in Facts(p) : x.f # "break"

StartInterpret ==
    /\ phase = "resolve"
    /\ rstatus = "ok"
    /\ Runnable(prog)
    /\ phase' = "run"
    /\ kont' = InterpretTasks(prog.stmts, CurEnv)
    /\ UNCHANGED <<prog, rvars, heap, interps, vals, err, output, spawned>>

Finish ==
    /\ phase = "run"
    /\ Len(kont) = 0
    /\ phase' = "done"
    /\ UNCHANGED <<prog, rvars, ivars>>

(***************************************************************************)
(* The programs.  Two families are built from small sets of statements and *)
(* of enclosing constructs; the others are written out.                    *)
(***************************************************************************)
False == Literal(Bool(FALSE))

True == Literal(Bool(TRUE))

\* a statement enclosing the statements of body; n tells the levels apart
Wrap(w, n, body) ==
    CASE w = "Block" -> Block(body)
      [] w = "Fun" -> Function(IF n = 1 THEN "f" ELSE "g", <<>>, body)
      [] w = "FunA" -> Function(IF n = 1 THEN "f" ELSE "g", <<"a">>, body)
      [] w = "Lambda" -> Expression(AnonFunction(<<>>, body))
      [] w = "While" -> WhileStmt(False, Block(body))
      [] w = "WhileFlat" -> WhileStmt(False, body[1])
      [] w = "IfFlat" ->
            IfStmt(True, body[1],
                   IF Len(body) > 2 THEN <<<<False, body[2]>>>> ELSE <<>>,
                   IF Len(body) > 1 THEN Some(body[Len(body)]) ELSE None)

\* the statement chosen for slot k; its expression ids are 10k+1, 10k+2
Leaf(l, k) ==
    CASE l = "skip" -> PrintStmt(Literal(Num(0)))
      [] l = "var_a" -> Var("a", Literal(Num(k)))
      [] l = "var_b" -> Var("b", Literal(Num(k)))
      [] l = "var_a_a" ->
            Var("a", Binary(Variable(10 * k + 1, "a"), "+", Literal(Num(1))))
      [] l = "var_b_a" -> Var("b", Variable(10 * k + 1, "a"))
      [] l = "print_a" -> PrintStmt(Variable(10 * k + 1, "a"))
      [] l = "print_b" -> PrintStmt(Variable(10 * k + 1, "b"))
      [] l = "set_a" ->
            Expression(Assign(10 * k + 2, "a", Variable(10 * k + 1, "b")))
      [] l = "cmd_a" -> CmdFunction("a", <<"l", "s">>)
      [] l = "fun_a" -> Function("a", <<>>, <<>>)
      [] l = "blk_print_a" -> Block(<<PrintStmt(Variable(10 * k + 1, "a"))>>)
      [] l = "return" -> ReturnStmt(None)
      [] l = "return_a" -> ReturnStmt(Some(Variable(10 * k + 1, "a")))
      [] l = "break" -> BreakStmt

ScopeWrappers == {"Block", "Fun", "FunA", "IfFlat"}

ScopeLeaves ==
    <<{"skip", "var_a"},
      {"skip", "var_a", "var_b", "var_a_a"},
      {"var_a", "var_a_a", "print_a", "cmd_a"},
      {"print_a", "print_b", "set_a", "blk_print_a"},
      {"skip", "print_a", "fun_a"}>>

\* L1; W1 [ L2; W2 [ L3; L4 ]; L5 ]
ScopeProgram(w1, w2, l) ==
    [name |-> "scope",
     shape |-> <<w1, w2>> \o l,
     stmts |-> <<Leaf(l[1], 1),
                 Wrap(w1, 1, <<Leaf(l[2], 2),
                               Wrap(w2, 2, <<Leaf(l[3], 3), Leaf(l[4], 4)>>),
                               Leaf(l[5], 5)>>)>>]

ControlWrappers == {"Block", "Fun", "Lambda", "While", "WhileFlat"}

ControlLeaves == {"skip", "return", "break"}

\* W1 [ C1; W2 [ C2 ]; C3 ]; C4
ControlProgram(w1, w2, l) ==
    [name |-> "control",
     shape |-> <<w1, w2>> \o l,
     stmts |-> <<Wrap(w1, 1, <<Leaf(l[1], 1),
                               Wrap(w2, 2, <<Leaf(l[2], 2)>>),
                               Leaf(l[3], 3)>>),
                 Leaf(l[4], 4)>>]

\* the number of iterations of the loop of LoopProgram
MaxIter == 2

\* fun counter() { var i = 0; fun inc() { i = i + 1; return i; } return inc; }
\* var c = counter(); print c(); print c();
\* var d = counter(); print d(); print c();
CounterProgram ==
    [name |-> "counter",
     shape |-> <<>>,
     stmts |-> <<
        Function("counter", <<>>, <<
            Var("i", Literal(Num(0))),
            Function("inc", <<>>, <<
                Expression(Assign(102, "i",
                    Binary(Variable(101, "i"), "+", Literal(Num(1))))),
                ReturnStmt(Some(Variable(103, "i")))>>),
            ReturnStmt(Some(Variable(104, "inc")))>>),
        Var("c", Call(106, Variable(105, "counter"), <<>>)),
        PrintStmt(Call(108, Variable(107, "c"), <<>>)),
        PrintStmt(Call(110, Variable(109, "c"), <<>>)),
        Var("d", Call(112, Variable(111, "counter"), <<>>)),
        PrintStmt(Call(114, Variable(113, "d"), <<>>)),
        PrintStmt(Call(116, Variable(115, "c"), <<>>))>>]

\* var f = nil;
\* { var i = 0; fun inc() { i = i + 1; return i; } f = inc; print inc(); }
\* print f(); print f();
HolderProgram ==
    [name |-> "holder",
     shape |-> <<>>,
     stmts |-> <<
        Var("f", Literal(Nil)),
        Block(<<
            Var("i", Literal(Num(0))),
            Function("inc", <<>>, <<
                Expression(Assign(202, "i",
                    Binary(Variable(201, "i"), "+", Literal(Num(1))))),
                ReturnStmt(Some(Variable(203, "i")))>>),
            Expression(Assign(205, "f", Variable(204, "inc"))),
            PrintStmt(Call(207, Variable(206, "inc"), <<>>))>>),
        PrintStmt(Call(209, Variable(208, "f"), <<>>)),
        PrintStmt(Call(211, Variable(210, "f"), <<>>))>>]

\* var n = 0; var f = nil; var g = nil;
\* while (n < MaxIter) {
\*     var j = n; fun get() { return j; } g = f; f = get; n = n + 1; }
\* print g(); print f();
LoopProgram ==
    [name |-> "loop",
     shape |-> <<>>,
     stmts |-> <<
        Var("n", Literal(Num(0))),
        Var("f", Literal(Nil)),
        Var("g", Literal(Nil)),
        WhileStmt(Binary(Variable(301, "n"), "<", Literal(Num(MaxIter))),
            Block(<<
                Var("j", Variable(302, "n")),
                Function("get", <<>>, <<ReturnStmt(Some(Variable(303, "j")))>>),
                Expression(Assign(305, "g", Variable(304, "f"))),
                Expression(Assign(307, "f", Variable(306, "get"))),
                Expression(Assign(309, "n",
                    Binary(Variable(308, "n"), "+", Literal(Num(1)))))>>)),
        PrintStmt(Call(311, Variable(310, "g"), <<>>)),
        PrintStmt(Call(313, Variable(312, "f"), <<>>))>>]

\* var a = 1; { var b = 2; { print zz; } print b; } print a;
FailingProgram ==
    [name |-> "failing",
     shape |-> <<>>,
     stmts |-> <<
        Var("a", Literal(Num(1))),
        Block(<<
            Var("b", Literal(Num(2))),
            Block(<<PrintStmt(Variable(401, "zz"))>>),
            PrintStmt(Variable(402, "b"))>>),
        PrintStmt(Variable(403, "a"))>>]

\* class A { fun m() { return 1; } }
\* class B < A { fun m() { return 2; } fun m() { return 3; } }
\* class C < B { fun k() { return 4; } }
\* class A { }
ClassesProgram ==
    [name |-> "classes",
     shape |-> <<>>,
     stmts |-> <<
        Class("A", <<Function("m", <<>>,
                        <<ReturnStmt(Some(Literal(Num(1))))>>)>>, None),
        Class("B", <<Function("m", <<>>,
                        <<ReturnStmt(Some(Literal(Num(2))))>>),
                     Function("m", <<>>,
                        <<ReturnStmt(Some(Literal(Num(3))))>>)>>,
              Some(Variable(501, "A"))),
        Class("C", <<Function("k", <<>>,
                        <<ReturnStmt(Some(Literal(Num(4))))>>)>>,
              Some(Variable(502, "B"))),
        Class("A", <<>>, None)>>]

\* var a = 1; { var b = 2; class Z { fun m() { return 1; } } print b; }
\* print a;
LocalClassProgram ==
    [name |-> "localclass",
     shape |-> <<>>,
     stmts |-> <<
        Var("a", Literal(Num(1))),
        Block(<<
            Var("b", Literal(Num(2))),
            Class("Z", <<Function("m", <<>>,
                            <<ReturnStmt(Some(Literal(Num(1))))>>)>>, None),
            PrintStmt(Variable(601, "b"))>>),
        PrintStmt(Variable(602, "a"))>>]

\* var Z = 0; class S { } { class Z < S { fun m() { } } print Z; } print Z;
ShadowClassProgram ==
    [name |-> "shadowclass",
     shape |-> <<>>,
     stmts |-> <<
        Var("Z", Literal(Num(0))),
        Class("S", <<>>, None),
        Block(<<
            Class("Z", <<Function("m", <<>>, <<>>)>>,
                  Some(Variable(651, "S"))),
            PrintStmt(Variable(652, "Z"))>>),
        PrintStmt(Variable(653, "Z"))>>]

\* fun mk() { class Y { } return 1; } print mk();
CallClassProgram ==
    [name |-> "callclass",
     shape |-> <<>>,
     stmts |-> <<
        Function("mk", <<>>, <<
            Class("Y", <<>>, None),
            ReturnStmt(Some(Literal(Num(1))))>>),
        PrintStmt(Call(702, Variable(701, "mk"), <<>>))>>]

\* var n = 5; class B { } class C < n { } print n;
BadSuperProgram ==
    [name |-> "badsuper",
     shape |-> <<>>,
     stmts |-> <<
        Var("n", Literal(Num(5))),
        Class("B", <<>>, None),
        Class("C", <<>>, Some(Variable(801, "n"))),
        PrintStmt(Variable(802, "n"))>>]

\* the values a superclass expression is given, by runtime type
SuperTags == {"num", "str", "bool", "nil", "fun", "class"}

SuperValue(tag) ==
    CASE tag = "num" -> Num(5)
      [] tag = "str" -> Str("s")
      [] tag = "bool" -> Bool(TRUE)
      [] OTHER -> Nil

SuperName(tag) ==
    CASE tag = "fun" -> "f"
      [] tag = "class" -> "B"
      [] OTHER -> "n"

\* var n = V; fun f() { } class B { }
\* var q = 1; class C < n|f|B { fun m() { } } print q;
\* with the second line at the top level ("Flat") or in a block ("Block")
SuperProgram(tag, w) ==
    LET body == <<Var("q", Literal(Num(1))),
                  Class("C", <<Function("m", <<>>, <<>>)>>,
                        Some(Variable(901, SuperName(tag)))),
                  PrintStmt(Variable(902, "q"))>>
    IN  [name |-> "super",
         shape |-> <<tag, w>>,
         stmts |-> <<Var("n", Literal(SuperValue(tag))),
                     Function("f", <<>>, <<>>),
                     Class("B", <<>>, None)>>
                   \o (IF w = "Block" THEN <<Block(body)>> ELSE body)]

\* var a = 1; var a = 2; fun a() { } { var a = 3; { var a = 4; print a; } }
GlobalsProgram ==
    [name |-> "globals",
     shape |-> <<>>,
     stmts |-> <<
        Var("a", Literal(Num(1))),
        Var("a", Literal(Num(2))),
        Function("a", <<>>, <<>>),
        Block(<<
            Var("a", Literal(Num(3))),
            Block(<<
                Var("a", Literal(Num(4))),
                PrintStmt(Variable(901, "a"))>>)>>)>>]

\* var x = 1; { var x = x + 1; print x; }
OwnInitializerProgram ==
    [name |-> "owninitializer",
     shape |-> <<>>,
     stmts |-> <<
        Var("x", Literal(Num(1))),
        Block(<<
            Var("x", Binary(Variable(1001, "x"), "+", Literal(Num(1)))),
            PrintStmt(Variable(1002, "x"))>>)>>]

\* cmd ls = `ls "-l" "a"b`; print ls(1); var q = 1; q();
CommandProgram ==
    [name |-> "command",
     shape |-> <<>>,
     stmts |-> <<
        CmdFunction("ls", <<"l", "s", " ", "\"", "-", "l", "\"", " ",
                            "\"", "a", "\"", "b">>),
        PrintStmt(Call(1102, Variable(1101, "ls"), <<Literal(Num(1))>>)),
        Var("q", Literal(Num(1))),
        Expression(Call(1104, Variable(1103, "q"), <<>>))>>]

\* fun f() { { return 1; print 7; return 2; } } print f();
\* fun g() { { var i = 0;
\*             while (i < MaxIter) { i = i + 1; return i; print i; } } }
\* print g();
\* fun h() { { return 5; return; } } print h();
ReturnsProgram ==
    [name |-> "returns",
     shape |-> <<>>,
     stmts |-> <<
        Function("f", <<>>, <<Block(<<
            ReturnStmt(Some(Literal(Num(1)))),
            PrintStmt(Literal(Num(7))),
            ReturnStmt(Some(Literal(Num(2))))>>)>>),
        PrintStmt(Call(1302, Variable(1301, "f"), <<>>)),
        Function("g", <<>>, <<Block(<<
            Var("i", Literal(Num(0))),
            WhileStmt(Binary(Variable(1303, "i"), "<", Literal(Num(MaxIter))),
                Block(<<
                    Expression(Assign(1305, "i",
                        Binary(Variable(1304, "i"), "+", Literal(Num(1))))),
                    ReturnStmt(Some(Variable(1306, "i"))),
                    PrintStmt(Variable(1307, "i"))>>))>>)>>),
        PrintStmt(Call(1309, Variable(1308, "g"), <<>>)),
        Function("h", <<>>, <<Block(<<
            ReturnStmt(Some(Literal(Num(5)))),
            ReturnStmt(None)>>)>>),
        PrintStmt(Call(1311, Variable(1310, "h"), <<>>))>>]

\* what the condition and the statement after the loops print
CondMark == Str("condition")

EndMark == Str("end")

WhileModes == {"normal", "body_fails", "condition_fails"}

\* var n = 0; fun t() { { print CondMark; return n < MaxIter; } }
\* while (t()) { print n; n = n + 1; }      with print zz; added (body_fails)
\* while (t()) { print n; }
\* print EndMark;
\* and, before the first loop, while (zz < 1) { print n; } (condition_fails)
WhileProgram(mode) ==
    [name |-> "while",
     shape |-> <<mode>>,
     stmts |-> <<
        Var("n", Literal(Num(0))),
        Function("t", <<>>, <<Block(<<
            PrintStmt(Literal(CondMark)),
            ReturnStmt(Some(Binary(Variable(1401, "n"), "<",
                                   Literal(Num(MaxIter)))))>>)>>)>>
        \o (IF mode = "condition_fails"
            THEN <<WhileStmt(Binary(Variable(1402, "zz"), "<", Literal(Num(1))),
                       Block(<<PrintStmt(Variable(1403, "n"))>>))>>
            ELSE <<>>)
        \o <<
        WhileStmt(Call(1405, Variable(1404, "t"), <<>>),
            Block(<<
                PrintStmt(Variable(1406, "n")),
                Expression(Assign(1408, "n",
                    Binary(Variable(1407, "n"), "+", Literal(Num(1)))))>>
                \o (IF mode = "body_fails"
                    THEN <<PrintStmt(Variable(1409, "zz"))>> ELSE <<>>))),
        WhileStmt(Call(1411, Variable(1410, "t"), <<>>),
            Block(<<PrintStmt(Variable(1412, "n"))>>)),
        PrintStmt(Literal(EndMark))>>]

\* print 1; var a = 1;
\* fun f() { { print 3; var c = 3; print zz; print 4; } print 44; }
\* { print 2; var b = a; f(); print 5; } print 6;
OrderProgram ==
    [name |-> "order",
     shape |-> <<>>,
     stmts |-> <<
        PrintStmt(Literal(Num(1))),
        Var("a", Literal(Num(1))),
        Function("f", <<>>, <<
            Block(<<
                PrintStmt(Literal(Num(3))),
                Var("c", Literal(Num(3))),
                PrintStmt(Variable(1501, "zz")),
                PrintStmt(Literal(Num(4)))>>),
            PrintStmt(Literal(Num(44)))>>),
        Block(<<
            PrintStmt(Literal(Num(2))),
            Var("b", Variable(1502, "a")),
            Expression(Call(1504, Variable(1503, "f"), <<>>)),
            PrintStmt(Literal(Num(5)))>>),
        PrintStmt(Literal(Num(6)))>>]

\* var a = 1;
\* { var p = 1; var r = 1; var s = 1;
\*   { var p = 2; fun s() { } var q = 3; r = 9; a = 8; }
\*   print p; print r; print s; print a;
\*   var d = zz; }
BlockLocalProgram ==
    [name |-> "blocklocal",
     shape |-> <<>>,
     stmts |-> <<
        Var("a", Literal(Num(1))),
        Block(<<
            Var("p", Literal(Num(1))),
            Var("r", Literal(Num(1))),
            Var("s", Literal(Num(1))),
            Block(<<
                Var("p", Literal(Num(2))),
                Function("s", <<>>, <<>>),
                Var("q", Literal(Num(3))),
                Expression(Assign(1601, "r", Literal(Num(9)))),
                Expression(Assign(1602, "a", Literal(Num(8))))>>),
            PrintStmt(Variable(1603, "p")),
            PrintStmt(Variable(1604, "r")),
            PrintStmt(Variable(1605, "s")),
            PrintStmt(Variable(1606, "a")),
            Var("d", Variable(1607, "zz"))>>)>>]

\* var K = 0; fun f(a) { print a; } f(1);
\* { var x = 2; class K { fun m(p) { print p; print x; } } print x; }
MethodProgram ==
    [name |-> "method",
     shape |-> <<>>,
     stmts |-> <<
        Var("K", Literal(Num(0))),
        Function("f", <<"a">>, <<PrintStmt(Variable(1701, "a"))>>),
        Expression(Call(1703, Variable(1702, "f"), <<Literal(Num(1))>>)),
        Block(<<
            Var("x", Literal(Num(2))),
            Class("K", <<Function("m", <<"p">>, <<
                            PrintStmt(Variable(1704, "p")),
                            PrintStmt(Variable(1705, "x"))>>)>>, None),
            PrintStmt(Variable(1706, "x"))>>)>>]

\* var K = 0; { var x = 1; class K { } class Z { } print x; }
BlockClassesProgram ==
    [name |-> "blockclasses",
     shape |-> <<>>,
     stmts |-> <<
        Var("K", Literal(Num(0))),
        Block(<<
            Var("x", Literal(Num(1))),
            Class("K", <<>>, None),
            Class("Z", <<>>, None),
            PrintStmt(Variable(1801, "x"))>>)>>]

\* the longest command string of CmdProgram
MaxCmdLen == 3

CmdChars == {"a", " ", "\""}

CmdStrings == UNION {[1..n -> CmdChars] : n \in 1..MaxCmdLen}

\* cmd c = s; print c(1);
CmdProgram(s) ==
    [name |-> "cmd",
     shape |-> s,
     stmts |-> <<
        CmdFunction("c", s),
        PrintStmt(Call(1202, Variable(1201, "c"), <<Literal(Num(1))>>))>>]

WrittenPrograms ==
    <<CounterProgram, HolderProgram, LoopProgram, FailingProgram,
      ClassesProgram, LocalClassProgram, ShadowClassProgram, CallClassProgram,
      BadSuperProgram, GlobalsProgram, OwnInitializerProgram, CommandProgram,
      ReturnsProgram, OrderProgram, BlockLocalProgram, MethodProgram,
      BlockClassesProgram>>

(***************************************************************************)
(* The whole system                                                        *)
(***************************************************************************)
InitProgram ==
    \/ \E w1 \in ScopeWrappers, w2 \in ScopeWrappers :
       \E l1 \in ScopeLeaves[1], l2 \in ScopeLeaves[2], l3 \in ScopeLeaves[3],
          l4 \in ScopeLeaves[4], l5 \in ScopeLeaves[5] :
          prog = ScopeProgram(w1, w2, <<l1, l2, l3, l4, l5>>)
    \/ \E w1 \in ControlWrappers, w2 \in ControlWrappers :
       \E l1 \in ControlLeaves, l2 \in ControlLeaves, l3 \in ControlLeaves,
          l4 \in ControlLeaves :
          prog = ControlProgram(w1, w2, <<l1, l2, l3, l4>>)
    \/ \E i \in 1..Len(WrittenPrograms) : prog = WrittenPrograms[i]
    \/ \E tag \in SuperTags, w \in {"Flat", "Block"} :
          prog = SuperProgram(tag, w)
    \/ \E s \in CmdStrings : prog = CmdProgram(s)
    \/ \E mode \in WhileModes : prog = WhileProgram(mode)

\* Resolver::new and Interpreter::new
Init ==
    /\ InitProgram
    /\ phase = "resolve"
    /\ scopes = <<>>
    /\ current_function = "None"
    /\ current_loop = "None"
    /\ locals = EmptyMap
    /\ work = StmtTasks(prog.stmts)
    /\ rstatus = ""
    /\ rmsg = ""
    /\ heap = <<[vars |-> EmptyMap, enclosing |-> 0]>>
    /\ interps = <<[environment |-> 1, specials |-> EmptyMap]>>
    /\ kont = <<>>
    /\ vals = <<>>
    /\ err = <<>>
    /\ output = <<>>
    /\ spawned = <<>>

Next ==
    \/ ResolveBlock
    \/ ResolveEndScope
    \/ ResolveVar
    \/ ResolveDefine
    \/ ResolveCmdFunction
    \/ ResolveFunction
    \/ ResolveRestoreFunction
    \/ ResolveExpressionStmt
    \/ ResolveIfStmt
    \/ ResolveReturnStmt
    \/ ResolveWhileStmt
    \/ ResolveLoopBody
    \/ ResolveRestoreLoop
    \/ ResolveBreakStmt
    \/ ResolveClass
    \/ ResolveMethod
    \/ ResolveExprVariable
    \/ ResolveExprAssign
    \/ ResolveAssignTarget
    \/ ResolveExprBinary
    \/ ResolveExprCall
    \/ ResolveExprLiteral
    \/ ResolveExprAnonFunction
    \/ ResolveDone
    \/ StartInterpret
    \/ ExecExpression
    \/ ExecDiscard
    \/ ExecPrint
    \/ ExecPrintValue
    \/ ExecVar
    \/ ExecVarDefine
    \/ ExecBlock
    \/ ExecBlockExit
    \/ InterpretReturn
    \/ Propagate
    \/ ExecClass
    \/ ExecClassBody
    \/ ExecIf
    \/ ExecIfBranch
    \/ ExecWhile
    \/ ExecWhileTest
    \/ ExecFunction
    \/ ExecCmdFunction
    \/ ExecReturn
    \/ ExecReturnStore
    \/ EvalLiteral
    \/ EvalVariable
    \/ EvalAssign
    \/ EvalAssignStore
    \/ EvalBinary
    \/ EvalBinaryApply
    \/ EvalAnonFunction
    \/ EvalCall
    \/ EvalCallFunction
    \/ EvalCallReturn
    \/ EvalCallNative
    \/ EvalCallOther
    \/ Finish

Spec == Init /\ [][Next]_vars

(***************************************************************************)
(* Properties                                                              *)
(***************************************************************************)
\* one resolve_function_helper call, or one WhileStmt arm, is on the call
\* stack for every function body, or loop body, being resolved
InFunctionBody == \E i \in 1..Len(work) : work[i].op = "restore_function"

InLoopBody == \E i \in 1..Len(work) : work[i].op = "restore_loop"

NothingExecuted ==
    /\ phase = "resolve"
    /\ output = <<>>
    /\ heap = <<[vars |-> EmptyMap, enclosing |-> 0]>>

\* C1: in a program without shadowing, the distance recorded for a reference
\* whose name is declared before it in a block or function scope around it is
\* the number of scopes opened between the declaring scope and the reference,
\* and every such reference has a distance once resolution has returned.
C1_DistanceIsScopesBetween ==
    NoShadowing(prog) =>
        \A r \in Refs(prog) : \A d \in VisibleDecls(prog, r) :
            /\ r.id \in DOMAIN locals => locals[r.id] = ScopesBetween(d, r)
            /\ rstatus = "ok" => r.id \in DOMAIN locals

C1_Witness ==
    /\ rstatus = "ok"
    /\ NoShadowing(prog)
    /\ \A n \in 0..2 :
          \E r \in Refs(prog) : \E d \in VisibleDecls(prog, r) :
              ScopesBetween(d, r) = n /\ locals[r.id] = n

\* C2: a program in which a Var in a block or function scope reads, in its
\* initializer, the variable being declared never yields a distance map and
\* never executes, whatever the scopes around it hold.
C2_OwnInitializerAborts ==
    ReadsOwnVar(prog) => rstatus # "ok" /\ NothingExecuted

C2_Witness ==
    /\ rstatus = "panic"
    /\ rmsg = MsgInitializer
    /\ Head(work).node.kind = "Variable"
    /\ \E i \in 1..(Len(scopes) - 1) :
          /\ Head(work).node.name \in DOMAIN scopes[i]
          /\ scopes[i][Head(work).node.name]

\* C3: a program that declares a name twice in one block or function scope
\* (parameters and body statements sharing the function's scope) never yields
\* a distance map and never executes; the resolver rejects a declaration for
\* this reason in no other program.
C3_RedeclarationAborts ==
    /\ DeclaredTwice(prog) => rstatus # "ok" /\ NothingExecuted
    /\ rmsg = MsgDeclared => DeclaredTwice(prog)

C3_Witness ==
    /\ rstatus = "panic"
    /\ rmsg = MsgDeclared
    /\ Head(work).node.kind = "Var"
    /\ current_function = "Function"

\* C4: the resolver rejects a ReturnStmt exactly when no function or lambda
\* body is being resolved around it, so a program is accepted only if it has
\* no return outside a function.
C4_ReturnOnlyInFunction ==
    /\ AtStmt("ReturnStmt") => (current_function = "None" <=> ~InFunctionBody)
    /\ rmsg = MsgReturn => ~InFunctionBody /\ ReturnOutsideFunction(prog)
    /\ rstatus = "ok" => ~ReturnOutsideFunction(prog)

\* a return after a nested function declaration, inside a function
C4_Witness ==
    /\ rstatus = "ok"
    /\ prog.name = "control"
    /\ prog.shape[1] = "Fun"
    /\ prog.shape[2] \in {"Fun", "Lambda"}
    /\ prog.shape[5] = "return"

\* C5: the resolver rejects a BreakStmt exactly when no while body is being
\* resolved around it; a program with a break outside every loop never yields
\* a distance map and never executes.
C5_BreakOnlyInLoop ==
    /\ AtStmt("BreakStmt") => (current_loop = "None" <=> ~InLoopBody)
    /\ rmsg = MsgBreak => ~InLoopBody /\ BreakOutsideLoop(prog)
    /\ BreakOutsideLoop(prog) => rstatus # "ok" /\ NothingExecuted

\* a break in an outer loop after an inner loop has ended
C5_Witness ==
    /\ rstatus = "ok"
    /\ prog.name = "control"
    /\ prog.shape[1] \in {"While", "WhileFlat"}
    /\ prog.shape[2] \in {"While", "WhileFlat"}
    /\ prog.shape[5] = "break"

Done(n) == phase = "done" /\ prog.name = n

AtBlockExit == Running /\ Head(kont).op = "block_exit"

\* C6: the step that ends a Block statement, after success or after a failure
\* of an inner statement, makes current the scope that encloses the block's
\* own scope, which was current when the block was entered, and leaves the
\* failure in place; so the run ends in the global scope, and a failure, once
\* raised, is what the run ends with.
C6_BlockRestoresEnvironment ==
    /\ [][AtBlockExit =>
            /\ CurEnv' = Head(kont).old
            /\ err' = err
            /\ Len(interps') = Len(interps)]_vars
    /\ [][Failing => err' = err]_vars
    /\ [](\A i \in 2..Len(kont) :
            kont[i].op = "block_exit" /\ kont[i - 1].op = "interpret_return"
                => kont[i].old = heap[kont[i - 1].start].enclosing)
    /\ [](phase = "done" => Len(interps) = 1 /\ CurEnv = 1)

\* both blocks of FailingProgram have ended after the failure of print zz
C6_Witness ==
    /\ prog.name = "failing"
    /\ phase = "run"
    /\ err = MsgUnbound("zz")
    /\ Len(heap) = 3
    /\ Len(kont) = 1
    /\ CurEnv = 1

\* C7: whenever interpret returns a failure, the current environment is the
\* one that was current when that call of interpret started.
C7_EnvironmentRestoredOnFailure ==
    Running /\ Failing /\ Head(kont).op = "interpret_return"
        => CurEnv = Head(kont).start

\* C8: CounterProgram prints 1, 2 from one counter, 1 from a second one and 3
\* from the first again; HolderProgram prints 1 through inc inside the block
\* and 2, 3 through f after the block has ended.
C8_ClosureSharesEnvironment ==
    /\ Done("counter") =>
          err = <<>> /\ output = <<Num(1), Num(2), Num(1), Num(3)>>
    /\ Done("holder") => err = <<>> /\ output = <<Num(1), Num(2), Num(3)>>
    /\ \A n \in {"counter", "holder"} :
          prog.name = n /\ Len(output) > 0 => output[1] = Num(1)

\* the second call through c, made after counter() has returned
C8_Witness ==
    /\ prog.name = "counter"
    /\ phase = "run"
    /\ output = <<Num(1), Num(2)>>
    /\ Len(interps) = 1

\* C9: after the loop of LoopProgram, the function made in the last iteration
\* but one returns the value j had in that iteration, and the function made in
\* the last iteration the value j had in the last; the two functions captured
\* different scopes.
C9_LoopClosuresKeepOwnScope ==
    /\ Done("loop") =>
          err = <<>> /\ output = <<Num(MaxIter - 2), Num(MaxIter - 1)>>
    /\ prog.name = "loop" /\ Len(output) > 0 =>
          /\ output[1] = Num(MaxIter - 2)
          /\ heap[1].vars["g"].parent_env # heap[1].vars["f"].parent_env

C9_Witness ==
    /\ Done("loop")
    /\ Len(output) = 2
    /\ heap[1].vars["g"].kind = "fun"
    /\ heap[heap[1].vars["g"].parent_env].vars["j"] = Num(MaxIter - 2)
    /\ heap[heap[1].vars["f"].parent_env].vars["j"] = Num(MaxIter - 1)

\* the class values bound in some scope, and their superclasses
RECURSIVE WithSuperclasses(_)
WithSuperclasses(c) ==
    IF c.superclass = None THEN {c}
    ELSE {c} \cup WithSuperclasses(c.superclass[1])

ClassesIn(env) ==
    UNION {WithSuperclasses(env.vars[n]) :
              n \in {m \in DOMAIN env.vars : env.vars[m].kind = "class"}}

BoundClasses == UNION {ClassesIn(heap[i]) : i \in 1..Len(heap)}

ScopesBinding(name) == {i \in 1..Len(heap) : name \in DOMAIN heap[i].vars}

BadSuperclass == prog.name = "super" /\ prog.shape[1] # "class"

AtClassBuild ==
    \/ Exec("Class") /\ Head(kont).node.superclass = None
    \/ Cont("class_body") /\ Head(vals).kind = "class"

MemberNames(methods) == {methods[i].name : i \in 1..Len(methods)}

\* C12: a Class statement that builds its class while the global scope is
\* current raises no failure, leaves the global scope current, and leaves its
\* name bound there to a class value of that name whose method table has the
\* names of the members as its keys, each bound to a function of that name.
C12_GlobalClassSucceeds ==
    [][AtClassBuild /\ CurEnv = 1 =>
          LET s == Head(kont).node
              klass == heap'[1].vars[s.name]
          IN  /\ err' = <<>>
              /\ CurEnv' = 1
              /\ Len(interps') = Len(interps)
              /\ klass.kind = "class"
              /\ klass.name = s.name
              /\ DOMAIN klass.methods = MemberNames(s.methods)
              /\ \A n \in DOMAIN klass.methods :
                    klass.methods[n].kind = "fun" /\ klass.methods[n].name = n
              /\ kont' = Tail(kont)]_vars

\* class B < A of ClassesProgram, with two members named m, has been built
C12_Witness ==
    /\ prog.name = "classes"
    /\ phase = "run"
    /\ Len(kont) = 2
    /\ CurEnv = 1
    /\ "B" \in DOMAIN heap[1].vars
    /\ heap[1].vars["B"].kind = "class"
    /\ heap[1].vars["B"].superclass # None
    /\ DOMAIN heap[1].vars["B"].methods = {"m"}
    /\ Len(prog.stmts[2].methods) = 2

\* the tokens of a command string, by the positions of its spaces: token k
\* lies between the (k-1)th and the kth space
SpacesOf(s) == {i \in 1..Len(s) : s[i] = " "}

TokenCount(s) == Cardinality(SpacesOf(s)) + 1

NthSpace(s, k) ==
    CHOOSE i \in SpacesOf(s) : Cardinality({j \in SpacesOf(s) : j < i}) = k - 1

Token(s, k) ==
    SubSeq(s,
           IF k = 1 THEN 1 ELSE NthSpace(s, k - 1) + 1,
           IF k = TokenCount(s) THEN Len(s) ELSE NthSpace(s, k) - 1)

IsQuote(c) == c = "\""

WithoutQuotes(t) == SelectSeq(t, LAMBDA c : ~IsQuote(c))

WithoutSurroundingQuotes(t) ==
    LET from == IF t # <<>> /\ IsQuote(t[1]) THEN 2 ELSE 1
        to == IF Len(t) >= from /\ IsQuote(t[Len(t)])
              THEN Len(t) - 1 ELSE Len(t)
    IN  SubSeq(t, from, to)

\* the call of c in CmdProgram, made with one argument, spawns at most one
\* process, whose program is Strip of the first token of the command string
\* and whose arguments are Strip of the other tokens, in order; it raises no
\* failure; what is printed is the text of the standard output of the process
\* and nothing of its standard error; the process ends at once, with nothing
\* printed, when the spawn fails or the output is no UTF-8
CommandCallSpawns(Strip(_)) ==
    prog.name = "cmd" =>
        LET s == prog.shape
        IN  /\ err = <<>>
            /\ Len(spawned) <= 1
            /\ \A k \in 1..Len(spawned) :
                  /\ spawned[k].line.program = Strip(Token(s, 1))
                  /\ Len(spawned[k].line.args) = TokenCount(s) - 1
                  /\ \A i \in 1..(TokenCount(s) - 1) :
                        spawned[k].line.args[i] = Strip(Token(s, i + 1))
            /\ Len(output) <= Len(spawned)
            /\ \A k \in 1..Len(output) : output[k] = Str(spawned[k].out.stdout)
            /\ phase = "aborted" =>
                  /\ output = <<>>
                  /\ spawned = <<>> \/ spawned[1].out.stdout = NotUtf8
            /\ phase = "done" => Len(output) = 1

ReturnSlotAfter == interps'[Len(interps')].specials

\* C15: a ReturnStmt puts its value, Nil when it has none, under "return" in
\* the signal slot of the running interpreter and goes on to the next pending
\* statement, changing no scope, no failure and no output; so in
\* ReturnsProgram f prints 7 after its first return and returns 2, g runs all
\* its MaxIter iterations, printing i after each return, and returns the last
\* i, and h returns Nil.
C15_ReturnOnlyStores ==
    /\ [][Exec("ReturnStmt") /\ Head(kont).node.value = None =>
            /\ ReturnSlotAfter = Put(CurSpecials, "return", Nil)
            /\ kont' = Tail(kont)
            /\ Len(interps') = Len(interps)
            /\ UNCHANGED <<heap, err, output, vals>>]_vars
    /\ [][Cont("return_store") =>
            /\ ReturnSlotAfter = Put(CurSpecials, "return", Head(vals))
            /\ kont' = Tail(kont)
            /\ Len(interps') = Len(interps)
            /\ UNCHANGED <<heap, err, output>>]_vars
    /\ [](Done("returns") =>
            /\ err = <<>>
            /\ output = <<Num(7), Num(2)>>
                        \o [i \in 1..MaxIter |-> Num(i)]
                        \o <<Num(MaxIter), Nil>>)

\* in g, the second return of the loop is about to replace the first's value
C15_Witness ==
    /\ prog.name = "returns"
    /\ Cont("return_store")
    /\ "return" \in DOMAIN CurSpecials
    /\ CurSpecials["return"] = Num(1)
    /\ Head(vals) = Num(2)
    /\ output = <<Num(7), Num(2), Num(1)>>

\* what WhileProgram prints when nothing fails: the mark of the condition
\* before each of the MaxIter runs of the first body, once more at the end of
\* the first loop, once for the second loop, whose body never runs
WhileOutput ==
    [j \in 1..(2 * MaxIter) |->
        IF j % 2 = 1 THEN CondMark ELSE Num(j \div 2 - 1)]
    \o <<CondMark, CondMark, EndMark>>

Marks(out) == Cardinality({j \in 1..Len(out) : out[j] = CondMark})

\* C16: in WhileProgram the condition is evaluated before each run of the
\* body and once more when the loop ends, and a body runs only after a truthy
\* evaluation: what is printed is at all times a prefix of WhileOutput, and all
\* of it at the end of a run without failure, where the condition was
\* evaluated once more than the first body ran and once for the second loop,
\* whose body never ran; when the body fails in its first run, or the
\* condition in its first evaluation, the run ends with that failure and
\* nothing more is printed, no mark of the condition either.
C16_WhileEvaluatesConditionFirst ==
    prog.name = "while" =>
        /\ Len(output) <= Len(WhileOutput)
        /\ output = SubSeq(WhileOutput, 1, Len(output))
        /\ prog.shape[1] = "normal" /\ phase = "done" =>
              /\ err = <<>>
              /\ output = WhileOutput
              /\ Marks(output) = (MaxIter + 1) + 1
        /\ prog.shape[1] = "body_fails" /\ phase = "done" =>
              /\ err = MsgUnbound("zz")
              /\ output = <<CondMark, Num(0)>>
        /\ prog.shape[1] = "condition_fails" /\ phase = "done" =>
              /\ err = MsgUnbound("zz")
              /\ output = <<>>
        /\ Failing => Len(output) <= 2

\* the first loop has ended: the condition was evaluated MaxIter + 1 times
C16_Witness ==
    /\ prog.name = "while"
    /\ prog.shape[1] = "normal"
    /\ Exec("WhileStmt")
    /\ Marks(output) = MaxIter + 1
    /\ Len(output) = 2 * MaxIter + 1

\* every binding of every scope is still there, with its value
BindingsRemain ==
    /\ Len(heap') >= Len(heap)
    /\ \A i \in 1..Len(heap) : \A n \in DOMAIN heap[i].vars :
          n \in DOMAIN heap'[i].vars /\ heap'[i].vars[n] = heap[i].vars[n]

OnlyBinds(sc, name) ==
    /\ name \in DOMAIN heap'[sc].vars
    /\ heap' = [heap EXCEPT ![sc].vars = Put(@, name, heap'[sc].vars[name])]

\* the scope the list of statements being run was started in
RECURSIVE ListScope(_)
ListScope(k) ==
    IF k = <<>> THEN 0
    ELSE IF Head(k).op = "interpret_return" THEN Head(k).start
    ELSE ListScope(Tail(k))

\* C18: a statement about to run directly in a block finds the block's own
\* scope current; a Var binds its name there and changes nothing else, a
\* Function likewise, and an assignment changes one existing binding of the
\* scope its reference denotes and adds no name.  In BlockLocalProgram, once
\* the inner block has ended, the outer block's scope holds p, r and s as
\* before, p and s with their values and r with the 9 assigned from inside,
\* a holds the 8 assigned from inside, the inner scope holds p, s and q, and d,
\* whose initializer fails, is bound nowhere.
C18_BlockBindsInOwnScope ==
    /\ [](Running /\ ~Failing /\ Head(kont).op = "stmt" =>
            CurEnv = ListScope(kont))
    /\ [](\A i \in 2..Len(kont) :
            kont[i].op = "block_exit" /\ kont[i - 1].op = "interpret_return"
                => /\ heap[kont[i - 1].start].enclosing = kont[i].old
                   /\ kont[i - 1].start # kont[i].old)
    /\ [][Cont("define") => OnlyBinds(CurEnv, Head(kont).name)]_vars
    /\ [][Exec("Function") => OnlyBinds(CurEnv, Head(kont).node.name)]_vars
    /\ [][Cont("assign") /\ err' = <<>> =>
            LET sc == LookupScope(heap, CurEnv, locals, Head(kont).name,
                                  Head(kont).id)
            IN  /\ sc # 0
                /\ Head(kont).name \in DOMAIN heap[sc].vars
                /\ OnlyBinds(sc, Head(kont).name)]_vars
    /\ [][Failing => heap' = heap]_vars
    /\ [](prog.name = "blocklocal" /\ Len(output) > 0 =>
            /\ heap[2].vars = [p |-> Num(1), r |-> Num(9), s |-> Num(1)]
            /\ heap[1].vars = [a |-> Num(8)]
            /\ DOMAIN heap[3].vars = {"p", "s", "q"}
            /\ heap[3].vars["p"] = Num(2)
            /\ heap[3].vars["s"].kind = "fun"
            /\ ScopesBinding("d") = {}
            /\ phase = "done" =>
                  /\ err = MsgUnbound("zz")
                  /\ output = <<Num(1), Num(9), Num(1), Num(8)>>)

\* the initializer of d has failed in the outer block after the four prints
C18_Witness ==
    /\ prog.name = "blocklocal"
    /\ phase = "run"
    /\ err = MsgUnbound("zz")
    /\ CurEnv = 2
    /\ Len(output) = 4
    /\ DOMAIN heap[2].vars = {"p", "r", "s"}

\* the distance to the nearest of the declarations a reference can see
NearestDistance(p, r) ==
    CHOOSE n \in {ScopesBetween(d, r) : d \in VisibleDecls(p, r)} :
        \A d \in VisibleDecls(p, r) : n <= ScopesBetween(d, r)

\* C19: a step that records a distance records it for one node id that had
\* none, and the distance d is below the depth of the scope stack, the scope
\* d below the top holds the name and no scope above it does; so the distance
\* of a reference is the distance to the nearest declaration of its name made
\* before it in a scope around it, below the number of scopes around it; and
\* once resolution has returned, a reference has a distance exactly when there
\* is such a declaration, so none at global level.
C19_NearestScopeWins ==
    /\ [][locals' # locals =>
            /\ Resolving
            /\ Head(work).op = "resolve_local"
                  \/ (Head(work).op = "expr" /\ Head(work).node.kind = "Variable")
            /\ LET name == IF Head(work).op = "resolve_local"
                           THEN Head(work).name ELSE Head(work).node.name
                   id == IF Head(work).op = "resolve_local"
                         THEN Head(work).id ELSE Head(work).node.id
               IN  /\ id \notin DOMAIN locals
                   /\ DOMAIN locals' = DOMAIN locals \cup {id}
                   /\ \A k \in DOMAIN locals : locals'[k] = locals[k]
                   /\ locals'[id] \in 0..(Len(scopes) - 1)
                   /\ name \in DOMAIN scopes[Len(scopes) - locals'[id]]
                   /\ \A j \in (Len(scopes) - locals'[id] + 1)..Len(scopes) :
                         name \notin DOMAIN scopes[j]]_vars
    /\ [](DOMAIN locals \subseteq {r.id : r \in Refs(prog)})
    /\ [](\A r \in Refs(prog) :
            /\ r.id \in DOMAIN locals =>
                  /\ VisibleDecls(prog, r) # {}
                  /\ locals[r.id] = NearestDistance(prog, r)
                  /\ locals[r.id] \in 0..(Len(r.chain) - 1)
            /\ rstatus = "ok" =>
                  (r.id \in DOMAIN locals <=> VisibleDecls(prog, r) # {})
            /\ r.chain = <<>> => r.id \notin DOMAIN locals)

\* a resolved program in which one reference sees two declarations of its name
\* and has the distance of the nearer, and another sees none from inside a
\* scope and has no distance
C19_Witness ==
    /\ rstatus = "ok"
    /\ \E r \in Refs(prog) :
          /\ Cardinality({ScopesBetween(d, r) : d \in VisibleDecls(prog, r)}) = 2
          /\ locals[r.id] = NearestDistance(prog, r)
    /\ \E r \in Refs(prog) :
          /\ r.chain # <<>>
          /\ VisibleDecls(prog, r) = {}
          /\ r.id \notin DOMAIN locals

\* the number of environments between env and the global one
RECURSIVE EnvDepth(_, _)
EnvDepth(h, env) ==
    IF h[env].enclosing = 0 THEN 0 ELSE 1 + EnvDepth(h, h[env].enclosing)

\* the node ids of the references that stand directly in a body
BodyRefs(body) ==
    {x.id : x \in {y \in WalkStmts(body, <<>>, GlobalContext, 0) :
                      y.f \in {"read", "write"} /\ y.chain = <<>>}}

\* the class values bound in some environment, with their methods
Methods ==
    UNION {{c.methods[n] : n \in DOMAIN c.methods} : c \in BoundClasses}

\* the resolver meets a reference with as many scopes open as the program
\* text has around it
ResolverDepthIsTextDepth ==
    Resolving /\ Head(work).op = "expr"
              /\ Head(work).node.kind \in {"Variable", "Assign"}
        => \E r \in Refs(prog) : /\ r.id = Head(work).node.id
                                  /\ Len(scopes) = Len(r.chain)

\* the interpreter evaluates a reference with as many environments between
\* the current one and the global one as the resolver had scopes open
EvaluatedAtResolverDepth ==
    \A r \in Refs(prog) :
        \/ Eval("Variable") /\ Head(kont).node.id = r.id
        \/ Cont("assign") /\ Head(kont).id = r.id
        => EnvDepth(heap, CurEnv) = Len(r.chain)

\* the environment a call of a method makes encloses the one the method
\* keeps, so a reference directly in its body is evaluated one deeper than
\* the kept environment; a recorded distance d >= 1 is walked d - 1 links
\* out of the kept environment
MethodsAtResolverDepth ==
    \A m \in Methods : \A r \in Refs(prog) :
        r.id \in BodyRefs(m.body) =>
            /\ EnvDepth(heap, m.parent_env) + 1 = Len(r.chain)
            /\ r.id \in DOMAIN locals /\ locals[r.id] >= 1 =>
                   ScopeAt(heap, m.parent_env, locals[r.id] - 1, r.name) # 0

\* C20: at every reference, those of method bodies included, the number of
\* environments between the current environment and the global one is the
\* depth of the resolver's scope stack at the reference, and the recorded
\* distance leads to an environment that binds the name.
C20_ScopesMatchEnvironments ==
    /\ ResolverDepthIsTextDepth
    /\ EvaluatedAtResolverDepth
    /\ MethodsAtResolverDepth

\* a step in which the Class arm runs from the placeholder to its end
ClassStatementRuns ==
    \/ Exec("Class") /\ Head(kont).node.superclass = None
    \/ Cont("class_body") /\ Head(vals).kind = "class"

AtFunctionBoundary ==
    \/ AtStmt("Function")
    \/ AtTask("method")
    \/ AtExpr("AnonFunction")
    \/ AtTask("restore_function")

\* the calls on the resolver's stack, innermost first, that end a function
\* body or a loop body
OpenBodies ==
    SelectSeq(work, LAMBDA t : t.op \in {"restore_function", "restore_loop"})

\* the statement being resolved stands in a function body with no loop
\* around it inside that function
DirectlyInFunction ==
    OpenBodies # <<>> /\ Head(OpenBodies).op = "restore_function"

\* W1 [ skip; W2 [ break ]; skip ]; skip, with W2 a function or a lambda
BreakInFunction(w1) ==
    /\ prog.name = "control"
    /\ prog.shape[1] \in w1
    /\ prog.shape[2] \in {"Fun", "Lambda"}
    /\ SubSeq(prog.shape, 3, 6) = <<"skip", "break", "skip", "skip">>

\* C22: entering and leaving a function body leaves the loop kind as it is;
\* so a BreakStmt directly in a function body is accepted exactly when the
\* function stands in a while body, and the program with a break in a function
\* declared in a while body resolves, while the same function declared in a
\* block or in a function outside every loop makes the resolver abort.
C22_FunctionKeepsLoopKind ==
    /\ [][AtFunctionBoundary => current_loop' = current_loop]_vars
    /\ [][AtStmt("BreakStmt") /\ DirectlyInFunction =>
            IF InLoopBody
            THEN rstatus' = rstatus /\ work' = Tail(work)
            ELSE rstatus' = "panic" /\ rmsg' = MsgBreak]_vars
    /\ [](BreakInFunction({"While"}) => rstatus # "panic")
    /\ [](BreakInFunction({"Block", "Fun", "Lambda"}) =>
            rstatus # "ok" /\ (rstatus = "panic" => rmsg = MsgBreak))

C22_Witness ==
    /\ BreakInFunction({"While"})
    /\ rstatus = "ok"

\* the end_scope calls the resolver still has to make
PendingEndScopes == Len(SelectSeq(work, LAMBDA t : t.op = "end_scope"))

\* the flag a pending restore puts back is the flag of the body around it
RestoresMatch(restore, set) ==
    \A i \in 1..Len(work) :
        work[i].op = restore =>
            (work[i].prev = set <=>
                \E j \in (i + 1)..Len(work) : work[j].op = restore)

\* the name the call at the head of the stack declares or defines
DeclaredNow ==
    IF Head(work).op = "define" THEN {Head(work).name}
    ELSE IF Head(work).op = "stmt"
            /\ Head(work).node.kind \in {"Var", "Function", "CmdFunction"}
    THEN {Head(work).node.name}
    ELSE {}

\* a scope that differs from an earlier one in the given names at most
SameApartFrom(before, after, names) ==
    /\ DOMAIN before \subseteq DOMAIN after
    /\ DOMAIN after \subseteq DOMAIN before \cup names
    /\ \A n \in DOMAIN before \ names : after[n] = before[n]

\* every call of the resolver is a statement, an expression or the rest of a
\* statement's arm, so a statement has been resolved when the calls it put on
\* the stack are gone.
\* C23: a scope is open for every end_scope still to be made, and a flag is
\* set for every restore still to be made, so a statement resolved without
\* abort leaves the depth and both flags as it found them; a step leaves the
\* scopes below the innermost as they are, and changes the innermost, when it
\* neither opens nor closes one, only in the name the statement declares; a
\* scope is opened by a block or a function body and closed by end_scope
\* alone, never on an empty stack; and after a successful resolution the
\* stack is empty and both flags are None.
C23_ScopesBalanced ==
    /\ [](phase = "resolve" /\ rstatus = "" =>
            /\ Len(scopes) = PendingEndScopes
            /\ current_function = "Function" <=> InFunctionBody
            /\ current_loop = "Loop" <=> InLoopBody
            /\ RestoresMatch("restore_function", "Function")
            /\ RestoresMatch("restore_loop", "Loop"))
    /\ [][Resolving =>
            LET n == Len(scopes)
                m == Len(scopes')
            IN  /\ m \in {n - 1, n, n + 1}
                /\ m = n - 1 =>
                      /\ Head(work).op = "end_scope"
                      /\ scopes' = SubSeq(scopes, 1, m)
                /\ m >= n =>
                      /\ \A j \in 1..(n - 1) : scopes'[j] = scopes[j]
                      /\ n > 0 =>
                            SameApartFrom(scopes[n], scopes'[n], DeclaredNow)
                /\ m = n + 1 =>
                      \/ AtStmt("Block") /\ scopes'[m] = EmptyMap
                      \/ AtFunctionBoundary]_vars
    /\ [](AtTask("end_scope") => Len(scopes) > 0)
    /\ [](rmsg # MsgUnderflow)
    /\ [](rstatus = "ok" =>
            /\ scopes = <<>>
            /\ current_function = "None"
            /\ current_loop = "None")

\* a function with a parameter that holds a block, resolved to its end
C23_Witness ==
    /\ rstatus = "ok"
    /\ prog.name = "scope"
    /\ prog.shape[1] = "FunA"
    /\ prog.shape[2] = "Block"
    /\ prog.shape[3] = "var_a"
    /\ prog.shape[5] = "var_a"
    /\ scopes = <<>>
    /\ locals # EmptyMap

====
